---- MODULE Spec2Model ----
(***************************************************************************)
(* A model of the FBIP protocol facade of src/src/protocols/               *)
(* enhanced_fbip_v2.py: event construction, the four serialization         *)
(* formats, packet framing with CRC-32, format detection, decoding, the    *)
(* performance statistics and the facade's counters.                       *)
(*                                                                         *)
(* Bytes are sequences of integers 0..255.  A 32-bit word is the sequence  *)
(* of its four bytes, most significant first (TLC integers are 32-bit      *)
(* signed).  A Python float is a fixed-point integer counting units of     *)
(* 1/10000.  Library calls (zlib.crc32, struct.pack, msgpack.packb and     *)
(* unpackb, json.dumps and loads) are operators that compute what the      *)
(* library computes on the values the model uses.                          *)
(***************************************************************************)
EXTENDS Integers, Sequences, FiniteSets, TLC

VARIABLES
    sequence_number,      \* FBIPProtocolV3.sequence_number
    error_count,          \* PerformanceStats.error_count
    total_packets,        \* PerformanceStats.total_packets
    serialization_times,  \* PerformanceStats.serialization_times (deque)
    deserialization_times,\* PerformanceStats.deserialization_times (deque)
    compression_ratios,   \* PerformanceStats.compression_ratios (deque)
    packet_sizes,         \* PerformanceStats.packet_sizes (deque)
    session_id,           \* FBIPProtocolV3.session_id
    default_format,       \* FBIPProtocolV3.default_format
    compression_threshold,\* FBIPProtocolV3.compression_threshold
    enable_compression,   \* FBIPProtocolV3.enable_compression
    facade_lock,          \* FBIPProtocolV3._lock: its holder, or NoThread
    stats_lock,           \* PerformanceStats._lock: its holder, or NoThread
    clock,                \* the wall clock, in milliseconds
    events,               \* the Events create_event has returned, in order
    sent,                 \* the bytes the last serialize_event returned
    peer_sequence_number, \* sequence_number of a second facade of the process
    last,                 \* the last completed call: what it was given and returned
    calls,                \* the number of calls made so far
    pc,                   \* per thread: its position inside a call
    local                 \* per thread: the call's local variables

vars == <<sequence_number, error_count, total_packets, serialization_times,
          deserialization_times, compression_ratios, packet_sizes, session_id,
          default_format, compression_threshold, enable_compression, facade_lock,
          stats_lock, clock, events, sent, peer_sequence_number, last, calls, pc,
          local>>

-----------------------------------------------------------------------------
(* Bounds of the model.                                                    *)

\* at most this many facade calls in one behaviour
MaxCalls == 3
\* at most this many Events are kept for later calls
MaxEvents == 2
\* the clock may advance by at most this many milliseconds in all
MaxClock == 1
\* the network flips one of the first MaxFlipBits bits of a payload
MaxFlipBits == 8
\* a call takes between 0 and MaxElapsed whole milliseconds of time.perf_counter
MaxElapsed == 0
\* the most copies of one Event a caller of Spec batches
MaxBatch == 2
\* the most copies of one Event a caller of BatchSpec batches
MaxCopies == 6
MaxDoublings == 8
MaxSizeCalls == 2
\* the nodes the action of the longest Event names
MaxNodes == 120

-----------------------------------------------------------------------------
(* Bytes, 32-bit words, integers.                                          *)

\* F(x): x is computed once and F's parameter names it
Let(x, F(_)) == F(x)

Min(a, b) == IF a <= b THEN a ELSE b
Max(a, b) == IF a >= b THEN a ELSE b

\* s[lo..hi], the empty sequence when lo > hi (a Python slice)
Slice(s, lo, hi) == IF lo > hi THEN <<>> ELSE SubSeq(s, lo, Min(hi, Len(s)))

\* the exclusive or of two bytes, tabulated
Xor8Table ==
    LET RECURSIVE XorN(_, _, _)
        XorN(a, b, n) ==
            IF n = 0 THEN 0
            ELSE (((a % 2) + (b % 2)) % 2) + 2 * XorN(a \div 2, b \div 2, n - 1)
    IN  [a \in 0..255 |-> [b \in 0..255 |-> XorN(a, b, 8)]]
Xor8(a, b) == Xor8Table[a][b]
Xor32(a, b) == <<Xor8(a[1], b[1]), Xor8(a[2], b[2]), Xor8(a[3], b[3]), Xor8(a[4], b[4])>>

\* the table of zlib.crc32: entry n is the word <<0, 0, 0, n>> taken through
\* eight steps of shifting right by one bit and, when the bit shifted out is
\* set, adding the reflected polynomial 0xEDB88320
CrcTable ==
    LET Shr1(w) == <<w[1] \div 2,
                     (w[1] % 2) * 128 + (w[2] \div 2),
                     (w[2] % 2) * 128 + (w[3] \div 2),
                     (w[3] % 2) * 128 + (w[4] \div 2)>>
        RECURSIVE CrcBits(_, _)
        CrcBits(w, k) ==
            IF k = 0 THEN w
            ELSE CrcBits(IF w[4] % 2 = 1 THEN Xor32(Shr1(w), <<237, 184, 131, 32>>)
                         ELSE Shr1(w), k - 1)
    IN  [n \in 0..255 |-> CrcBits(<<0, 0, 0, n>>, 8)]

\* the CRC register after the bytes b[lo..hi]; the halves are computed in
\* turn so that the evaluation stays shallow
RECURSIVE CrcRange(_, _, _, _)
CrcRange(w, b, lo, hi) ==
    IF lo > hi THEN w
    ELSE IF lo = hi
         THEN Xor32(CrcTable[Xor8(w[4], b[lo])], <<0, w[1], w[2], w[3]>>)
         ELSE LET mid == (lo + hi) \div 2
                  left == CrcRange(w, b, lo, mid)
              IN  IF left[1] >= 0 THEN CrcRange(left, b, mid + 1, hi) ELSE left

\* zlib.crc32(b) & 0xFFFFFFFF, as the four bytes of the 32-bit value
crc32(b) == Xor32(CrcRange(<<255, 255, 255, 255>>, b, 1, Len(b)), <<255, 255, 255, 255>>)

\* big-endian encodings of a non-negative integer below 2^31
U8(n) == <<n % 256>>
U16(n) == <<(n \div 256) % 256, n % 256>>
U32(n) == <<(n \div 16777216) % 256, (n \div 65536) % 256, (n \div 256) % 256, n % 256>>
FromU16(b) == b[1] * 256 + b[2]
\* defined for words below 2^31 (every length and small value of the model)
FromU32(b) == ((b[1] * 256 + b[2]) * 256 + b[3]) * 256 + b[4]

\* two's-complement big-endian encoding of an integer in n bytes
RECURSIVE SignedBE(_, _)
SignedBE(v, n) ==
    IF n = 0 THEN <<>> ELSE SignedBE(v \div 256, n - 1) \o <<v % 256>>

\* the integer that n >= 4 bytes encode in two's complement, for the values
\* that fit the model's integers (the bytes above the low four are sign bytes)
FromSignedBE(b) ==
    LET n == Len(b)
        low == SubSeq(b, n - 3, n)
    IN  IF b[1] >= 128
        THEN -FromU32([i \in 1..4 |-> 255 - low[i]]) - 1
        ELSE FromU32(low)

\* whether the two's-complement bytes b encode an integer of the model
FitsSigned(b) ==
    LET n == Len(b)
    IN  \A k \in 1..(n - 3) :
            b[k] = (IF b[n - 3] >= 128 THEN 255 ELSE 0)

\* little-endian order of the same bytes
Reverse(b) == [i \in 1..Len(b) |-> b[Len(b) + 1 - i]]

\* the concatenation of the sequences of a sequence of sequences
Concat(ss) ==
    LET RECURSIVE ConcatRange(_, _)
        ConcatRange(lo, hi) ==
            IF lo > hi THEN <<>>
            ELSE IF lo = hi THEN ss[lo]
                 ELSE LET mid == (lo + hi) \div 2
                      IN  ConcatRange(lo, mid) \o ConcatRange(mid + 1, hi)
    IN  ConcatRange(1, Len(ss))

-----------------------------------------------------------------------------
(* Python values.  A value is a record with one field, named after its     *)
(* type: [int |-> 5], [float |-> 8000] (0.8), [str |-> bytes], [bytes |->  *)
(* bytes], [bool |-> TRUE], [none |-> TRUE], [list |-> <<values>>],        *)
(* [dict |-> <<<<key, value>>, ...>>] in insertion order, and [ndarray |-> *)
(* <<floats>>] for a numpy float32 array.                                  *)

\* the UTF-8 bytes of the string literals the program and the model use
Utf8 ==
       "id" :> <<105, 100>> @@ "ts" :> <<116, 115>> @@ "v" :> <<118>>
        @@ "st" :> <<115, 116>> @@ "i" :> <<105>> @@ "d" :> <<100>>
        @@ "at" :> <<97, 116>> @@ "tn" :> <<116, 110>>
        @@ "nodes" :> <<110, 111, 100, 101, 115>>
        @@ "params" :> <<112, 97, 114, 97, 109, 115>> @@ "p" :> <<112>>
        @@ "eb" :> <<101, 98>> @@ "f" :> <<102>> @@ "qs" :> <<113, 115>>
        @@ "a" :> <<97>> @@ "c" :> <<99>> @@ "e" :> <<101>> @@ "m" :> <<109>>
        @@ "sc" :> <<115, 99>> @@ "es" :> <<101, 115>> @@ "cm" :> <<99, 109>>
        @@ "cl" :> <<99, 108>> @@ "ec" :> <<101, 99>> @@ "na" :> <<110, 97>>
        @@ "fc" :> <<102, 99>> @@ "ms" :> <<109, 115>>
        @@ "sdc" :> <<115, 100, 99>> @@ "mp" :> <<109, 112>>
        @@ "rc" :> <<114, 99>> @@ "uc" :> <<117, 99>>
        @@ "user_id" :> <<117, 115, 101, 114, 95, 105, 100>>
        @@ "session_id" :> <<115, 101, 115, 115, 105, 111, 110, 95, 105, 100>>
        @@ "priority" :> <<112, 114, 105, 111, 114, 105, 116, 121>>
        @@ "emotional_state" :> <<101, 109, 111, 116, 105, 111, 110, 97, 108, 95, 115, 116, 97, 116, 101>>
        @@ "sequence" :> <<115, 101, 113, 117, 101, 110, 99, 101>>
        @@ "protocol_version" :> <<112, 114, 111, 116, 111, 99, 111, 108, 95, 118, 101, 114, 115, 105, 111, 110>>
        @@ "format" :> <<102, 111, 114, 109, 97, 116>>
        @@ "json" :> <<106, 115, 111, 110>>
        @@ "event" :> <<101, 118, 101, 110, 116>>
        @@ "FBIP_v3.0" :> <<70, 66, 73, 80, 95, 118, 51, 46, 48>>
        @@ "healthy" :> <<104, 101, 97, 108, 116, 104, 121>>
        @@ "consciousness" :> <<99, 111, 110, 115, 99, 105, 111, 117, 115, 110, 101, 115, 115>>
        @@ "type" :> <<116, 121, 112, 101>>
        @@ "batch" :> <<98, 97, 116, 99, 104>>
        @@ "count" :> <<99, 111, 117, 110, 116>>
        @@ "events" :> <<101, 118, 101, 110, 116, 115>>
        @@ "timestamp" :> <<116, 105, 109, 101, 115, 116, 97, 109, 112>>
        @@ "signal" :> <<115, 105, 103, 110, 97, 108>>
        @@ "intensity" :> <<105, 110, 116, 101, 110, 115, 105, 116, 121>>
        @@ "duration_ms" :> <<100, 117, 114, 97, 116, 105, 111, 110, 95, 109, 115>>
        @@ "frequency_hz" :> <<102, 114, 101, 113, 117, 101, 110, 99, 121, 95, 104, 122>>
        @@ "superposition_count" :> <<115, 117, 112, 101, 114, 112, 111, 115, 105, 116, 105, 111, 110, 95, 99, 111, 117, 110, 116>>
        @@ "entanglement_strength" :> <<101, 110, 116, 97, 110, 103, 108, 101, 109, 101, 110, 116, 95, 115, 116, 114, 101, 110, 103, 116, 104>>
        @@ "coherence_time" :> <<99, 111, 104, 101, 114, 101, 110, 99, 101, 95, 116, 105, 109, 101>>
        @@ "action_type" :> <<97, 99, 116, 105, 111, 110, 95, 116, 121, 112, 101>>
        @@ "target_network" :> <<116, 97, 114, 103, 101, 116, 95, 110, 101, 116, 119, 111, 114, 107>>
        @@ "target_nodes" :> <<116, 97, 114, 103, 101, 116, 95, 110, 111, 100, 101, 115>>
        @@ "parameters" :> <<112, 97, 114, 97, 109, 101, 116, 101, 114, 115>>
        @@ "enable_hardware" :> <<101, 110, 97, 98, 108, 101, 95, 104, 97, 114, 100, 119, 97, 114, 101>>
        @@ "requires_confirmation" :> <<114, 101, 113, 117, 105, 114, 101, 115, 95, 99, 111, 110, 102, 105, 114, 109, 97, 116, 105, 111, 110>>
        @@ "energy_budget" :> <<101, 110, 101, 114, 103, 121, 95, 98, 117, 100, 103, 101, 116>>
        @@ "alpha_peak" :> <<97, 108, 112, 104, 97, 95, 112, 101, 97, 107>>
        @@ "gamma_sync" :> <<103, 97, 109, 109, 97, 95, 115, 121, 110, 99>>
        @@ "telepathy" :> <<116, 101, 108, 101, 112, 97, 116, 104, 121>>
        @@ "highlight_cluster" :> <<104, 105, 103, 104, 108, 105, 103, 104, 116, 95, 99, 108, 117, 115, 116, 101, 114>>
        @@ "create_superposition" :> <<99, 114, 101, 97, 116, 101, 95, 115, 117, 112, 101, 114, 112, 111, 115, 105, 116, 105, 111, 110>>
        @@ "executive" :> <<101, 120, 101, 99, 117, 116, 105, 118, 101>>
        @@ "memory" :> <<109, 101, 109, 111, 114, 121>>
        @@ "warp" :> <<119, 97, 114, 112>> @@ "n1" :> <<110, 49>>
        @@ "u1" :> <<117, 49>> @@ "calm" :> <<99, 97, 108, 109>>
        @@ "secret" :> <<115, 101, 99, 114, 101, 116>>
        @@ "token" :> <<116, 111, 107, 101, 110>> @@ "0" :> <<48>>
        @@ "1" :> <<49>> @@ "2" :> <<50>> @@ "mode" :> <<109, 111, 100, 101>>
        @@ "fast" :> <<102, 97, 115, 116>>
        @@ "sess-0001" :> <<115, 101, 115, 115, 45, 48, 48, 48, 49>>
        @@ "peer_0001" :> <<112, 101, 101, 114, 95, 48, 48, 48, 49>>
        @@ "ALPHA_PEAK" :> <<65, 76, 80, 72, 65, 95, 80, 69, 65, 75>>
        @@ "BETA_BURST" :> <<66, 69, 84, 65, 95, 66, 85, 82, 83, 84>>
        @@ "THETA_SURGE" :> <<84, 72, 69, 84, 65, 95, 83, 85, 82, 71, 69>>
        @@ "DELTA_DIP" :> <<68, 69, 76, 84, 65, 95, 68, 73, 80>>
        @@ "GAMMA_SYNC" :> <<71, 65, 77, 77, 65, 95, 83, 89, 78, 67>>
        @@ "P300_RESPONSE" :> <<80, 51, 48, 48, 95, 82, 69, 83, 80, 79, 78, 83, 69>>
        @@ "SUPERPOSITION_COLLAPSE" :> <<83, 85, 80, 69, 82, 80, 79, 83, 73, 84, 73, 79, 78, 95, 67, 79, 76, 76, 65, 80, 83, 69>>
        @@ "ENTANGLEMENT_EVENT" :> <<69, 78, 84, 65, 78, 71, 76, 69, 77, 69, 78, 84, 95, 69, 86, 69, 78, 84>>
        @@ "DECOHERENCE_DETECTED" :> <<68, 69, 67, 79, 72, 69, 82, 69, 78, 67, 69, 95, 68, 69, 84, 69, 67, 84, 69, 68>>
        @@ "QUANTUM_TUNNELING" :> <<81, 85, 65, 78, 84, 85, 77, 95, 84, 85, 78, 78, 69, 76, 73, 78, 71>>
        @@ "FIELD_RESONANCE" :> <<70, 73, 69, 76, 68, 95, 82, 69, 83, 79, 78, 65, 78, 67, 69>>
        @@ "VACUUM_FLUCTUATION" :> <<86, 65, 67, 85, 85, 77, 95, 70, 76, 85, 67, 84, 85, 65, 84, 73, 79, 78>>
        @@ "CONSCIOUSNESS_EMERGENCE" :> <<67, 79, 78, 83, 67, 73, 79, 85, 83, 78, 69, 83, 83, 95, 69, 77, 69, 82, 71, 69, 78, 67, 69>>
        @@ "ATP_DEPLETION" :> <<65, 84, 80, 95, 68, 69, 80, 76, 69, 84, 73, 79, 78>>
        @@ "ENERGY_SURGE" :> <<69, 78, 69, 82, 71, 89, 95, 83, 85, 82, 71, 69>>
        @@ "METABOLIC_STRESS" :> <<77, 69, 84, 65, 66, 79, 76, 73, 67, 95, 83, 84, 82, 69, 83, 83>>
        @@ "RECOVERY_PHASE" :> <<82, 69, 67, 79, 86, 69, 82, 89, 95, 80, 72, 65, 83, 69>>
        @@ "HIGHLIGHT_CLUSTER" :> <<72, 73, 71, 72, 76, 73, 71, 72, 84, 95, 67, 76, 85, 83, 84, 69, 82>>
        @@ "GENERATE_NODE" :> <<71, 69, 78, 69, 82, 65, 84, 69, 95, 78, 79, 68, 69>>
        @@ "LINK_NODES" :> <<76, 73, 78, 75, 95, 78, 79, 68, 69, 83>>
        @@ "EXPAND_NODE" :> <<69, 88, 80, 65, 78, 68, 95, 78, 79, 68, 69>>
        @@ "PULSE_FEEDBACK" :> <<80, 85, 76, 83, 69, 95, 70, 69, 69, 68, 66, 65, 67, 75>>
        @@ "CREATE_SUPERPOSITION" :> <<67, 82, 69, 65, 84, 69, 95, 83, 85, 80, 69, 82, 80, 79, 83, 73, 84, 73, 79, 78>>
        @@ "COLLAPSE_STATE" :> <<67, 79, 76, 76, 65, 80, 83, 69, 95, 83, 84, 65, 84, 69>>
        @@ "ENTANGLE_NODES" :> <<69, 78, 84, 65, 78, 71, 76, 69, 95, 78, 79, 68, 69, 83>>
        @@ "MEASURE_COHERENCE" :> <<77, 69, 65, 83, 85, 82, 69, 95, 67, 79, 72, 69, 82, 69, 78, 67, 69>>
        @@ "ADJUST_FIELD_STRENGTH" :> <<65, 68, 74, 85, 83, 84, 95, 70, 73, 69, 76, 68, 95, 83, 84, 82, 69, 78, 71, 84, 72>>
        @@ "PROPAGATE_RESONANCE" :> <<80, 82, 79, 80, 65, 71, 65, 84, 69, 95, 82, 69, 83, 79, 78, 65, 78, 67, 69>>
        @@ "SPAWN_VACUUM_NODE" :> <<83, 80, 65, 87, 78, 95, 86, 65, 67, 85, 85, 77, 95, 78, 79, 68, 69>>
        @@ "ALLOCATE_ENERGY" :> <<65, 76, 76, 79, 67, 65, 84, 69, 95, 69, 78, 69, 82, 71, 89>>
        @@ "TRIGGER_RECOVERY" :> <<84, 82, 73, 71, 71, 69, 82, 95, 82, 69, 67, 79, 86, 69, 82, 89>>
        @@ "INDUCE_STRESS" :> <<73, 78, 68, 85, 67, 69, 95, 83, 84, 82, 69, 83, 83>>
        @@ "BALANCE_NETWORKS" :> <<66, 65, 76, 65, 78, 67, 69, 95, 78, 69, 84, 87, 79, 82, 75, 83>>
        @@ "SDC_WORK" :> <<83, 68, 67, 95, 87, 79, 82, 75>>
        @@ "MEMRISTOR_UPDATE" :> <<77, 69, 77, 82, 73, 83, 84, 79, 82, 95, 85, 80, 68, 65, 84, 69>>
        @@ "QUANTUM_GATE" :> <<81, 85, 65, 78, 84, 85, 77, 95, 71, 65, 84, 69>>
        @@ "EXECUTIVE" :> <<69, 88, 69, 67, 85, 84, 73, 86, 69>>
        @@ "MEMORY" :> <<77, 69, 77, 79, 82, 89>>
        @@ "SENSORY" :> <<83, 69, 78, 83, 79, 82, 89>>
        @@ "INTEGRATION" :> <<73, 78, 84, 69, 71, 82, 65, 84, 73, 79, 78>>
        @@ "entanglement_event" :> <<101, 110, 116, 97, 110, 103, 108, 101, 109, 101, 110, 116, 95, 101, 118, 101, 110, 116>>
        @@ "FBIP_v" :> <<70, 66, 73, 80, 95, 118>> @@ "text" :> <<116, 101, 120, 116>>
        @@ "3.0" :> <<51, 46, 48>> @@ "high" :> <<104, 105, 103, 104>>
        @@ "fbip_" :> <<102, 98, 105, 112, 95>> @@ "_" :> <<95>>
        @@ "FBIP" :> <<70, 66, 73, 80>> @@ "true" :> <<116, 114, 117, 101>>
        @@ "false" :> <<102, 97, 108, 115, 101>>
        @@ "null" :> <<110, 117, 108, 108>> @@ "NaN" :> <<78, 97, 78>>

PyInt(n) == [int |-> n]
\* a Python int of 2^31 or more: the big-endian bytes of its value, the first
\* of them not zero
PyLong(b) == [long |-> b]
PyFloat(x) == [float |-> x]
PyStr(s) == [str |-> Utf8[s]]
PyStrOf(b) == [str |-> b]
PyBytes(b) == [bytes |-> b]
PyBool(b) == [bool |-> b]
PyNone == [none |-> TRUE]
PyList(items) == [list |-> items]
PyDict(pairs) == [dict |-> pairs]
PyArray(xs) == [ndarray |-> xs]

\* isinstance(v, kind), for the kinds of value above
IsInstance(v, kind) == DOMAIN v = {kind}
IsNumber(v) == IsInstance(v, "int") \/ IsInstance(v, "float")

\* one unit of the fixed-point floats: 1.0
One == 100 * 100

\* the number a Python int or float stands for, in fixed-point units
Num(v) == IF IsInstance(v, "int") THEN v.int * One ELSE v.float

\* the result of a call that may raise
Ok(v) == [ok |-> TRUE, val |-> v]
Raise(e) == [ok |-> FALSE, err |-> e]

\* key in d
HasKey(d, k) == \E i \in 1..Len(d.dict) : d.dict[i][1] = k
\* d[k], for a key that is there
Item(d, k) == d.dict[CHOOSE i \in 1..Len(d.dict) : d.dict[i][1] = k][2]
\* d.get(k, default)
Get(d, k, default) == IF HasKey(d, k) THEN Item(d, k) ELSE default
\* d restricted to the keys in keys, in d's order
FilterKeys(d, keys) == PyDict(SelectSeq(d.dict, LAMBDA kv : kv[1] \in keys))

\* bool(v) for the values the program tests
Truthy(v) ==
    CASE IsInstance(v, "none") -> FALSE
      [] IsInstance(v, "bool") -> v.bool
      [] IsInstance(v, "int") -> v.int # 0
      [] IsInstance(v, "float") -> v.float # 0
      [] IsInstance(v, "str") -> v.str # <<>>
      [] IsInstance(v, "bytes") -> v.bytes # <<>>
      [] IsInstance(v, "list") -> v.list # <<>>
      [] IsInstance(v, "dict") -> v.dict # <<>>
      [] OTHER -> TRUE

-----------------------------------------------------------------------------
(* msgpack 1.x: packb(v) with use_bin_type=True, unpackb(b, raw=False)     *)
(* with strict_map_key=True.  A float64 is the type byte 0xcb and eight    *)
(* bytes; the eight bytes are the two's-complement encoding of the         *)
(* fixed-point number, in place of its IEEE-754 bits.                      *)

pack_int(n) ==
    IF n >= 0
    THEN IF n < 128 THEN <<n>>
         ELSE IF n < 256 THEN <<204>> \o U8(n)
         ELSE IF n < 65536 THEN <<205>> \o U16(n)
         ELSE <<206>> \o U32(n)
    ELSE IF n >= -32 THEN <<256 + n>>
         ELSE IF n >= -128 THEN <<208>> \o SignedBE(n, 1)
         ELSE IF n >= -32768 THEN <<209>> \o SignedBE(n, 2)
         ELSE <<210>> \o SignedBE(n, 4)

\* the type byte and the length of a str, bin, array or map of n items
pack_header(kind, n) ==
    CASE kind = "str" ->
            IF n < 32 THEN <<160 + n>>
            ELSE IF n < 256 THEN <<217>> \o U8(n) ELSE <<218>> \o U16(n)
      [] kind = "bin" -> IF n < 256 THEN <<196>> \o U8(n) ELSE <<197>> \o U16(n)
      [] kind = "array" -> IF n < 16 THEN <<144 + n>> ELSE <<220>> \o U16(n)
      [] kind = "map" -> IF n < 16 THEN <<128 + n>> ELSE <<222>> \o U16(n)

\* whether packb accepts v (a numpy array is not a type msgpack packs)
RECURSIVE Packable(_)
Packable(v) ==
    CASE IsInstance(v, "list") -> \A i \in 1..Len(v.list) : Packable(v.list[i])
      [] IsInstance(v, "dict") -> \A i \in 1..Len(v.dict) :
                         Packable(v.dict[i][1]) /\ Packable(v.dict[i][2])
      [] IsInstance(v, "ndarray") -> FALSE
      [] OTHER -> TRUE

\* msgpack.packb(v), for a value packb accepts
RECURSIVE packb(_)
packb(v) ==
    CASE IsInstance(v, "none") -> <<192>>
      [] IsInstance(v, "bool") -> IF v.bool THEN <<195>> ELSE <<194>>
      [] IsInstance(v, "int") -> pack_int(v.int)
      [] IsInstance(v, "float") -> <<203>> \o SignedBE(v.float, 8)
      [] IsInstance(v, "str") -> pack_header("str", Len(v.str)) \o v.str
      [] IsInstance(v, "bytes") -> pack_header("bin", Len(v.bytes)) \o v.bytes
      [] IsInstance(v, "list") ->
            pack_header("array", Len(v.list))
              \o Concat([i \in 1..Len(v.list) |-> packb(v.list[i])])
      [] IsInstance(v, "dict") ->
            pack_header("map", Len(v.dict))
              \o Concat([i \in 1..Len(v.dict) |->
                           packb(v.dict[i][1]) \o packb(v.dict[i][2])])

\* what the unpacker has after one object: the value and the next position,
\* or the exception
Parsed(v, next) == [ok |-> TRUE, val |-> v, next |-> next]

\* one scalar or container header at position i of b; for a container the
\* value is left to unpack_at
unpack_fixed(b, i, n, make(_)) ==
    IF i + n > Len(b) THEN Raise("ValueError: incomplete input")
    ELSE Parsed(make(SubSeq(b, i + 1, i + n)), i + n + 1)

unpack_sized(b, i, lenbytes, make(_)) ==
    IF i + lenbytes > Len(b) THEN Raise("ValueError: incomplete input")
    ELSE LET n == IF lenbytes = 0 THEN b[i] % 32
                  ELSE IF lenbytes = 1 THEN b[i + 1]
                  ELSE FromU16(SubSeq(b, i + 1, i + 2))
             from == i + lenbytes + 1
         IN  IF from + n - 1 > Len(b) THEN Raise("ValueError: incomplete input")
             ELSE Parsed(make(SubSeq(b, from, from + n - 1)), from + n)

decode_utf8(raw) ==
    IF \E k \in 1..Len(raw) : raw[k] >= 128
    THEN [undecodable |-> raw]
    ELSE PyStrOf(raw)

unpack_str(b, i, lenbytes) ==
    LET r == unpack_sized(b, i, lenbytes, decode_utf8)
    IN  IF r.ok /\ DOMAIN r.val = {"undecodable"}
        THEN Raise("UnicodeDecodeError") ELSE r

\* the values the unpacker makes of the bytes x of a scalar; a number too
\* large for the model's integers is kept as its bytes
unpack_number(kind, x) ==
    CASE kind = "uint" ->
            IF FitsSigned(<<0>> \o x)
            THEN PyInt(FromU32(SubSeq(x, Len(x) - 3, Len(x))))
            ELSE [bigint |-> <<0>> \o x]
      [] kind = "int" -> IF FitsSigned(x) THEN PyInt(FromSignedBE(x)) ELSE [bigint |-> x]
      [] kind = "float64" ->
            IF FitsSigned(x) THEN PyFloat(FromSignedBE(x)) ELSE [float64 |-> x]
      [] kind = "float32" -> [float32 |-> x]

\* a 32-bit length: one above any length of the model when it is larger
unpack_len32(b, i) ==
    IF i + 4 > Len(b) THEN Len(b) + 1
    ELSE IF b[i + 1] # 0 THEN Len(b) + 1
    ELSE FromU32(SubSeq(b, i + 1, i + 4))

RECURSIVE unpack_at(_, _)
RECURSIVE unpack_items(_, _, _, _, _)

\* the n objects from position i on, appended to acc; pairs of a map when
\* ismap (a key that is not a str or bytes raises: strict_map_key)
unpack_items(b, i, n, ismap, acc) ==
    IF n = 0 THEN Parsed(acc, i)
    ELSE LET k == unpack_at(b, i)
         IN  IF ~k.ok THEN k
             ELSE IF ~ismap THEN unpack_items(b, k.next, n - 1, ismap, Append(acc, k.val))
             ELSE IF ~(IsInstance(k.val, "str") \/ IsInstance(k.val, "bytes"))
                  THEN Raise("ValueError: map key is not str or bytes (strict_map_key)")
             ELSE LET v == unpack_at(b, k.next)
                  IN  IF ~v.ok THEN v
                      ELSE unpack_items(b, v.next, n - 1, ismap,
                                        Append(acc, <<k.val, v.val>>))

unpack_container(b, from, n, ismap) ==
    LET r == unpack_items(b, from, n, ismap, <<>>)
    IN  IF ~r.ok THEN r
        ELSE Parsed(IF ismap THEN PyDict(r.val) ELSE PyList(r.val), r.next)

unpack_at(b, i) ==
    IF i > Len(b) THEN Raise("ValueError: incomplete input")
    ELSE LET t == b[i]
         IN CASE t < 128 -> Parsed(PyInt(t), i + 1)
              [] t >= 128 /\ t < 144 -> unpack_container(b, i + 1, t - 128, TRUE)
              [] t >= 144 /\ t < 160 -> unpack_container(b, i + 1, t - 144, FALSE)
              [] t >= 160 /\ t < 192 -> unpack_str(b, i, 0)
              [] t = 192 -> Parsed(PyNone, i + 1)
              [] t = 194 -> Parsed(PyBool(FALSE), i + 1)
              [] t = 195 -> Parsed(PyBool(TRUE), i + 1)
              [] t = 196 -> unpack_sized(b, i, 1, PyBytes)
              [] t = 197 -> unpack_sized(b, i, 2, PyBytes)
              [] t = 198 ->
                    IF i + 4 + unpack_len32(b, i) > Len(b)
                    THEN Raise("ValueError: incomplete input")
                    ELSE Parsed(PyBytes(SubSeq(b, i + 5, i + 4 + unpack_len32(b, i))),
                                i + 5 + unpack_len32(b, i))
              [] t = 202 -> unpack_fixed(b, i, 4, LAMBDA x : unpack_number("float32", x))
              [] t = 203 -> unpack_fixed(b, i, 8, LAMBDA x : unpack_number("float64", x))
              [] t = 204 -> unpack_fixed(b, i, 1, LAMBDA x : PyInt(x[1]))
              [] t = 205 -> unpack_fixed(b, i, 2, LAMBDA x : PyInt(FromU16(x)))
              [] t = 206 -> unpack_fixed(b, i, 4, LAMBDA x : unpack_number("uint", x))
              [] t = 207 -> unpack_fixed(b, i, 8, LAMBDA x : unpack_number("uint", x))
              [] t = 208 -> unpack_fixed(b, i, 1, LAMBDA x : PyInt(x[1] - 256 * (x[1] \div 128)))
              [] t = 209 -> unpack_fixed(b, i, 2,
                              LAMBDA x : PyInt(FromU16(x) - 65536 * (x[1] \div 128)))
              [] t = 210 -> unpack_fixed(b, i, 4, LAMBDA x : unpack_number("int", x))
              [] t = 211 -> unpack_fixed(b, i, 8, LAMBDA x : unpack_number("int", x))
              [] t = 217 -> unpack_str(b, i, 1)
              [] t = 218 -> unpack_str(b, i, 2)
              [] t = 220 ->
                    IF i + 2 > Len(b) THEN Raise("ValueError: incomplete input")
                    ELSE unpack_container(b, i + 3, FromU16(SubSeq(b, i + 1, i + 2)), FALSE)
              [] t = 222 ->
                    IF i + 2 > Len(b) THEN Raise("ValueError: incomplete input")
                    ELSE unpack_container(b, i + 3, FromU16(SubSeq(b, i + 1, i + 2)), TRUE)
              [] t = 219 ->
                    IF i + 4 + unpack_len32(b, i) > Len(b)
                    THEN Raise("ValueError: incomplete input")
                    ELSE LET raw == SubSeq(b, i + 5, i + 4 + unpack_len32(b, i))
                         IN  IF \E k \in 1..Len(raw) : raw[k] >= 128
                             THEN Raise("UnicodeDecodeError")
                             ELSE Parsed(PyStrOf(raw), i + 5 + unpack_len32(b, i))
              [] t = 221 ->
                    IF i + 4 + unpack_len32(b, i) > Len(b)
                    THEN Raise("ValueError: incomplete input")
                    ELSE unpack_container(b, i + 5, unpack_len32(b, i), FALSE)
              [] t = 223 ->
                    IF i + 4 + 2 * unpack_len32(b, i) > Len(b)
                    THEN Raise("ValueError: incomplete input")
                    ELSE unpack_container(b, i + 5, unpack_len32(b, i), TRUE)
              [] t >= 224 -> Parsed(PyInt(t - 256), i + 1)
              \* 0xc1 is never used; the ext types are in no input of the model
              [] OTHER -> Raise("FormatError")

\* msgpack.unpackb(b, raw=False)
unpackb(b) ==
    Let(unpack_at(b, 1), LAMBDA r :
        IF ~r.ok THEN r
        ELSE IF r.next <= Len(b) THEN Raise("ExtraData")
        ELSE Ok(r.val))

-----------------------------------------------------------------------------
(* json.dumps and json.loads on the same values.  The strings of the model *)
(* are ASCII without quotes, backslashes or control characters, so no      *)
(* escape is ever written; a float prints as Python's repr prints a        *)
(* decimal of at most four places.                                         *)

\* the decimal digits of n >= 0
RECURSIVE Digits(_)
Digits(n) == IF n < 10 THEN <<48 + n>> ELSE Digits(n \div 10) \o <<48 + (n % 10)>>

\* str(n) of a Python int
int_repr(n) == IF n < 0 THEN <<45>> \o Digits(-n) ELSE Digits(n)

\* the fraction digits of f (0 <= f < One), without trailing zeros, at least one
RECURSIVE FractionDigits(_, _)
FractionDigits(f, unit) ==
    IF unit = 1 \/ (f = 0 /\ unit < One) THEN <<>>
    ELSE <<48 + (f \div (unit \div 10))>>
           \o FractionDigits(f % (unit \div 10), unit \div 10)

\* repr(x) of a Python float
float_repr(x) ==
    LET a == IF x < 0 THEN -x ELSE x
    IN  (IF x < 0 THEN <<45>> ELSE <<>>)
          \o Digits(a \div One) \o <<46>> \o FractionDigits(a % One, One)

Quoted(b) == <<34>> \o b \o <<34>>

\* whether json.dumps accepts v: bytes and numpy arrays raise TypeError, and
\* so does a dict key that is not a str, int, float, bool or None
RECURSIVE JsonSerializable(_)
JsonSerializable(v) ==
    CASE IsInstance(v, "list") -> \A i \in 1..Len(v.list) : JsonSerializable(v.list[i])
      [] IsInstance(v, "dict") -> \A i \in 1..Len(v.dict) :
                         /\ ~IsInstance(v.dict[i][1], "bytes") /\ ~IsInstance(v.dict[i][1], "list")
                         /\ ~IsInstance(v.dict[i][1], "dict") /\ ~IsInstance(v.dict[i][1], "ndarray")
                         /\ JsonSerializable(v.dict[i][2])
      [] IsInstance(v, "bytes") -> FALSE
      [] IsInstance(v, "ndarray") -> FALSE
      [] OTHER -> TRUE

\* a sequence of byte strings joined by sep
Join(parts, sep) ==
    Concat([i \in 1..Len(parts) |-> IF i = 1 THEN parts[i] ELSE sep \o parts[i]])

\* the text of a scalar
json_scalar(v) ==
    CASE IsInstance(v, "none") -> Utf8["null"]
      [] IsInstance(v, "bool") -> IF v.bool THEN Utf8["true"] ELSE Utf8["false"]
      [] IsInstance(v, "int") -> int_repr(v.int)
      [] IsInstance(v, "float") -> float_repr(v.float)
      [] IsInstance(v, "str") -> v.str

\* json.dumps(v, separators=(item_sep, key_sep)), for a value dumps accepts;
\* a key that is not a str is written as the string of its text
RECURSIVE dumps_with(_, _, _)
dumps_with(v, item_sep, key_sep) ==
    CASE IsInstance(v, "str") -> Quoted(v.str)
      [] IsInstance(v, "list") ->
            <<91>> \o Join([i \in 1..Len(v.list) |->
                              dumps_with(v.list[i], item_sep, key_sep)], item_sep)
                   \o <<93>>
      [] IsInstance(v, "dict") ->
            <<123>> \o Join([i \in 1..Len(v.dict) |->
                               Quoted(json_scalar(v.dict[i][1])) \o key_sep
                                 \o dumps_with(v.dict[i][2], item_sep, key_sep)],
                            item_sep)
                    \o <<125>>
      [] OTHER -> json_scalar(v)

\* json.dumps(v)
dumps(v) == dumps_with(v, <<44, 32>>, <<58, 32>>)
\* json.dumps(v, separators=(',', ':'))
dumps_compact(v) == dumps_with(v, <<44>>, <<58>>)

IsSpace(c) == c \in {32, 9, 10, 13}
IsDigit(c) == c >= 48 /\ c <= 57

\* the first position from i on that holds no white space (Len(b) + 1 if none)
SkipSpace(b, i) ==
    IF \E j \in i..Len(b) : ~IsSpace(b[j])
    THEN CHOOSE j \in i..Len(b) : ~IsSpace(b[j]) /\ \A k \in i..(j - 1) : IsSpace(b[k])
    ELSE Len(b) + 1

\* the value of a run of digits
RECURSIVE DigitsValue(_, _)
DigitsValue(ds, acc) ==
    IF ds = <<>> THEN acc ELSE DigitsValue(Tail(ds), acc * 10 + (ds[1] - 48))

\* the first position from i on that holds no digit
DigitsEnd(b, i) ==
    IF \E j \in i..Len(b) : ~IsDigit(b[j])
    THEN CHOOSE j \in i..Len(b) : ~IsDigit(b[j]) /\ \A k \in i..(j - 1) : IsDigit(b[k])
    ELSE Len(b) + 1

\* a number at position i: an int, or a float when a fraction follows
loads_number(b, i) ==
    LET neg == b[i] = 45
        from == IF neg THEN i + 1 ELSE i
        iend == DigitsEnd(b, from)
        ival == DigitsValue(SubSeq(b, from, iend - 1), 0)
        hasfrac == iend <= Len(b) /\ b[iend] = 46
        fend == IF hasfrac THEN DigitsEnd(b, iend + 1) ELSE iend
        fdigits == IF hasfrac THEN SubSeq(b, iend + 1, fend - 1) ELSE <<>>
    IN  IF iend = from \/ (hasfrac /\ fend = iend + 1) \/ Len(fdigits) > 4
        THEN Raise("JSONDecodeError")
        ELSE IF hasfrac
             THEN Parsed(PyFloat((IF neg THEN -1 ELSE 1)
                                   * (ival * One
                                      + DigitsValue(fdigits \o [k \in 1..(4 - Len(fdigits)) |-> 48],
                                                    0))),
                         fend)
             ELSE Parsed(PyInt(IF neg THEN -ival ELSE ival), fend)

\* a string whose opening quote is at position i
loads_string(b, i) ==
    IF ~\E j \in (i + 1)..Len(b) : b[j] = 34 THEN Raise("JSONDecodeError")
    ELSE LET close == CHOOSE j \in (i + 1)..Len(b) :
                         b[j] = 34 /\ \A k \in (i + 1)..(j - 1) : b[k] # 34
             body == SubSeq(b, i + 1, close - 1)
         IN  IF \E k \in 1..Len(body) : body[k] = 92 \/ body[k] < 32
             THEN Raise("JSONDecodeError")
             ELSE Parsed(PyStrOf(body), close + 1)

HasWord(b, i, w) == i + Len(w) - 1 <= Len(b) /\ SubSeq(b, i, i + Len(w) - 1) = w

RECURSIVE loads_at(_, _)
RECURSIVE loads_members(_, _, _, _)

\* the members of an array or object from position i on (after the opening
\* bracket or a comma), appended to acc
loads_members(b, i, isobj, acc) ==
    LET ki == SkipSpace(b, i)
        k == IF isobj
             THEN IF ki <= Len(b) /\ b[ki] = 34 THEN loads_string(b, ki)
                  ELSE Raise("JSONDecodeError")
             ELSE Parsed(PyNone, ki)
        ci == IF k.ok THEN SkipSpace(b, k.next) ELSE 0
    IN  IF ~k.ok THEN k
        ELSE IF isobj /\ ~(ci <= Len(b) /\ b[ci] = 58) THEN Raise("JSONDecodeError")
        ELSE LET v == loads_at(b, IF isobj THEN ci + 1 ELSE ki)
                 ni == IF v.ok THEN SkipSpace(b, v.next) ELSE 0
                 acc2 == IF ~v.ok THEN acc
                         ELSE Append(acc, IF isobj THEN <<k.val, v.val>> ELSE v.val)
             IN  IF ~v.ok THEN v
                 ELSE IF ni > Len(b) THEN Raise("JSONDecodeError")
                 ELSE IF b[ni] = 44 THEN loads_members(b, ni + 1, isobj, acc2)
                 ELSE IF b[ni] = (IF isobj THEN 125 ELSE 93)
                      THEN Parsed(IF isobj THEN PyDict(acc2) ELSE PyList(acc2), ni + 1)
                 ELSE Raise("JSONDecodeError")

loads_at(b, i0) ==
    LET i == SkipSpace(b, i0)
    IN  IF i > Len(b) THEN Raise("JSONDecodeError")
        ELSE CASE b[i] = 123 ->
                    LET j == SkipSpace(b, i + 1)
                    IN  IF j <= Len(b) /\ b[j] = 125 THEN Parsed(PyDict(<<>>), j + 1)
                        ELSE loads_members(b, i + 1, TRUE, <<>>)
               [] b[i] = 91 ->
                    LET j == SkipSpace(b, i + 1)
                    IN  IF j <= Len(b) /\ b[j] = 93 THEN Parsed(PyList(<<>>), j + 1)
                        ELSE loads_members(b, i + 1, FALSE, <<>>)
               [] b[i] = 34 -> loads_string(b, i)
               [] b[i] = 45 \/ IsDigit(b[i]) -> loads_number(b, i)
               [] HasWord(b, i, Utf8["true"]) -> Parsed(PyBool(TRUE), i + 4)
               [] HasWord(b, i, Utf8["false"]) -> Parsed(PyBool(FALSE), i + 5)
               [] HasWord(b, i, Utf8["null"]) -> Parsed(PyNone, i + 4)
               [] OTHER -> Raise("JSONDecodeError")

\* json.loads(data.decode('utf-8'))
loads(b) ==
    IF \E k \in 1..Len(b) : b[k] >= 128 THEN Raise("UnicodeDecodeError")
    ELSE Let(loads_at(b, 1), LAMBDA r :
             IF ~r.ok THEN r
             ELSE IF SkipSpace(b, r.next) <= Len(b) THEN Raise("JSONDecodeError")
             ELSE Ok(r.val))

-----------------------------------------------------------------------------
(* Protocol constants, enums, the packet header, zlib.                     *)

FBIP_MAGIC_BYTES == Utf8["FBIP"]
FBIP_VERSION == 512
MAX_PACKET_SIZE == 65536
COMPRESSION_THRESHOLD == 512
HEADER_SIZE == 16
HISTORY_MAXLEN == 1000

\* the members of the IntEnums, by name
SignalTypeMembers ==
    <<<<"ALPHA_PEAK", 0>>, <<"BETA_BURST", 1>>, <<"THETA_SURGE", 2>>,
      <<"DELTA_DIP", 3>>, <<"GAMMA_SYNC", 4>>, <<"P300_RESPONSE", 5>>,
      <<"SUPERPOSITION_COLLAPSE", 16>>, <<"ENTANGLEMENT_EVENT", 17>>,
      <<"DECOHERENCE_DETECTED", 18>>, <<"QUANTUM_TUNNELING", 19>>,
      <<"FIELD_RESONANCE", 32>>, <<"VACUUM_FLUCTUATION", 33>>,
      <<"CONSCIOUSNESS_EMERGENCE", 34>>, <<"ATP_DEPLETION", 48>>,
      <<"ENERGY_SURGE", 49>>, <<"METABOLIC_STRESS", 50>>, <<"RECOVERY_PHASE", 51>>>>

ActionTypeMembers ==
    <<<<"HIGHLIGHT_CLUSTER", 0>>, <<"GENERATE_NODE", 1>>, <<"LINK_NODES", 2>>,
      <<"EXPAND_NODE", 3>>, <<"PULSE_FEEDBACK", 4>>, <<"CREATE_SUPERPOSITION", 16>>,
      <<"COLLAPSE_STATE", 17>>, <<"ENTANGLE_NODES", 18>>, <<"MEASURE_COHERENCE", 19>>,
      <<"ADJUST_FIELD_STRENGTH", 32>>, <<"PROPAGATE_RESONANCE", 33>>,
      <<"SPAWN_VACUUM_NODE", 34>>, <<"ALLOCATE_ENERGY", 48>>,
      <<"TRIGGER_RECOVERY", 49>>, <<"INDUCE_STRESS", 50>>, <<"BALANCE_NETWORKS", 51>>,
      <<"SDC_WORK", 64>>, <<"MEMRISTOR_UPDATE", 65>>, <<"QUANTUM_GATE", 66>>>>

ConsciousnessNetworkMembers ==
    <<<<"EXECUTIVE", 0>>, <<"MEMORY", 1>>, <<"SENSORY", 2>>, <<"INTEGRATION", 3>>>>

PriorityMembers == <<<<"LOW", 1>>, <<"NORMAL", 5>>, <<"HIGH", 8>>, <<"CRITICAL", 10>>>>

ProtocolFormat == {"json", "binary", "msgpack", "compressed"}

\* PacketType and PacketFlags
SINGLE_EVENT == 0
BATCH_EVENTS == 1
FLAG_COMPRESSED == 1


\* Enum[name]: the member of that name, or KeyError
EnumByName(members, name) ==
    IF \E i \in 1..Len(members) : Utf8[members[i][1]] = name
    THEN Ok(members[CHOOSE i \in 1..Len(members) : Utf8[members[i][1]] = name][2])
    ELSE Raise("KeyError")

\* Enum(value): the member of that value, or ValueError
EnumByValue(members, v) ==
    LET Is(i) == IF IsInstance(v, "int") THEN members[i][2] = v.int
                 ELSE IF IsInstance(v, "bool")
                      THEN members[i][2] = (IF v.bool THEN 1 ELSE 0)
                 ELSE IsInstance(v, "float") /\ members[i][2] * One = v.float
    IN  IF \E i \in 1..Len(members) : Is(i)
        THEN Ok(members[CHOOSE i \in 1..Len(members) : Is(i)][2])
        ELSE Raise("ValueError: not a valid member")

\* str.upper() of ASCII text
Upper(b) == [k \in 1..Len(b) |-> IF b[k] >= 97 /\ b[k] <= 122 THEN b[k] - 32 ELSE b[k]]

\* round(x, ndigits) of a float, unit being 10^-ndigits in fixed-point units;
\* a tie goes to the even neighbour
RoundTo(x, unit) ==
    LET r == x % unit
        low == x - r
    IN  IF 2 * r < unit THEN low
        ELSE IF 2 * r > unit THEN low + unit
        ELSE IF (low \div unit) % 2 = 0 THEN low ELSE low + unit

\* round(v, ndigits) of a Python number: an int stays the int it is
PyRound(v, unit) == IF IsInstance(v, "float") THEN PyFloat(RoundTo(v.float, unit)) ELSE v

\* ndarray.astype(np.float32).tobytes(): four bytes per element, little-endian
\* (the bytes of the fixed-point number in place of the IEEE-754 bits)
tobytes(xs) == Concat([k \in 1..Len(xs) |-> Reverse(SignedBE(xs[k], 4))])

\* np.frombuffer(b, dtype=np.float32), for a buffer of whole elements
frombuffer(b) ==
    [k \in 1..(Len(b) \div 4) |-> FromSignedBE(Reverse(SubSeq(b, 4 * k - 3, 4 * k)))]

\* PacketHeader(...).pack(): struct.pack("!4sHBBII", ...); the checksum is
\* given as its four bytes
PacketHeader_pack(packet_type, flags, data_length, checksum) ==
    FBIP_MAGIC_BYTES \o U16(FBIP_VERSION) \o U8(packet_type) \o U8(flags)
      \o U32(data_length) \o checksum

\* PacketHeader.unpack(data)
PacketHeader_unpack(data) ==
    IF Len(data) < HEADER_SIZE THEN Raise("ValueError: Insufficient data for header")
    ELSE IF SubSeq(data, 1, 4) # FBIP_MAGIC_BYTES
         THEN Raise("ValueError: Invalid FBIP magic bytes")
    ELSE Ok([packet_type |-> data[7], flags |-> data[8],
             data_length |-> SubSeq(data, 9, 12), checksum |-> SubSeq(data, 13, 16),
             version |-> FBIP_VERSION])

\* the sum of f[i] for i in lo..hi
RECURSIVE SumRange(_, _, _)
SumRange(f, lo, hi) ==
    IF lo > hi THEN 0
    ELSE IF lo = hi THEN f[lo]
         ELSE LET mid == (lo + hi) \div 2
              IN  SumRange(f, lo, mid) + SumRange(f, mid + 1, hi)

\* zlib.adler32(b), as four bytes
adler32(b) ==
    LET n == Len(b)
        s1 == (1 + SumRange(b, 1, n)) % 65521
        s2 == (n + SumRange([i \in 1..n |-> (n + 1 - i) * b[i]], 1, n)) % 65521
    IN  U16(s2) \o U16(s1)

\* zlib.compress(b, level=6): a zlib stream that inflates to b.  The stream
\* written here holds b in one stored deflate block, behind the two header
\* bytes 0x78 0x9c that level 6 writes and before the Adler-32 of b.
compress(b) ==
    <<120, 156, 1>> \o Reverse(U16(Len(b))) \o Reverse(U16(65535 - Len(b)))
      \o b \o adler32(b)

\* zlib.decompress(b)
decompress(b) ==
    IF Len(b) < 11 \/ b[1] # 120 \/ b[2] \notin {1, 156} \/ b[3] # 1
    THEN Raise("zlib.error")
    ELSE LET n == FromU16(<<b[5], b[4]>>)
             body == SubSeq(b, 8, 7 + n)
         IN  IF FromU16(<<b[7], b[6]>>) # 65535 - n \/ Len(b) # n + 11
                \/ SubSeq(b, n + 8, n + 11) # adler32(body)
             THEN Raise("zlib.error")
             ELSE Ok(body)

-----------------------------------------------------------------------------
(* The Event model: QuantumState, ConsciousnessMetrics, OptimizedFBIPEvent *)
(* and their compact dictionaries.  An Event is a record of the dataclass  *)
(* fields; enum fields hold the member's integer, the others a Python      *)
(* value.                                                                  *)

K(s) == PyStr(s)

\* QuantumState.to_compact_dict
QuantumState_to_compact_dict(qs) ==
    PyDict(<<<<K("a"), PyBytes(tobytes(qs.amplitudes.ndarray))>>,
             <<K("p"), PyBytes(tobytes(qs.phases.ndarray))>>,
             <<K("c"), qs.coherence_time>>,
             <<K("e"), qs.entanglements>>,
             <<K("m"), qs.measurement_basis>>>>)

\* the first exception among results, in order, or Ok(val)
FirstRaise(results, val) ==
    IF \E i \in 1..Len(results) : ~results[i].ok
    THEN results[CHOOSE i \in 1..Len(results) :
                    ~results[i].ok /\ \A j \in 1..(i - 1) : results[j].ok]
    ELSE Ok(val)

\* data[key]
Subscript(data, key) ==
    IF ~IsInstance(data, "dict") THEN Raise("TypeError: not subscriptable by a key")
    ELSE IF ~HasKey(data, key) THEN Raise("KeyError")
    ELSE Ok(Item(data, key))

\* np.frombuffer(v, dtype=np.float32)
np_frombuffer(r) ==
    IF ~r.ok THEN r
    ELSE IF ~IsInstance(r.val, "bytes") THEN Raise("TypeError: a bytes-like object is required")
    ELSE IF Len(r.val.bytes) % 4 # 0
         THEN Raise("ValueError: buffer size must be a multiple of element size")
    ELSE Ok(PyArray(frombuffer(r.val.bytes)))

\* QuantumState.from_compact_dict
QuantumState_from_compact_dict(data) ==
    LET a == np_frombuffer(Subscript(data, K("a")))
        p == np_frombuffer(Subscript(data, K("p")))
        c == Subscript(data, K("c"))
        e == Subscript(data, K("e"))
        m == Subscript(data, K("m"))
    IN  FirstRaise(<<a, p, c, e, m>>,
                   [amplitudes |-> a.val, phases |-> p.val, coherence_time |-> c.val,
                    entanglements |-> e.val, measurement_basis |-> m.val])

\* ConsciousnessMetrics.to_compact_dict
ConsciousnessMetrics_to_compact_dict(cm) ==
    PyDict(<<<<K("cl"), PyRound(cm.consciousness_level, 10)>>,
             <<K("ec"), PyRound(cm.energy_cost, 100)>>,
             <<K("na"), PyDict([i \in 1..Len(cm.network_allocation.dict) |->
                                  <<cm.network_allocation.dict[i][1],
                                    PyRound(cm.network_allocation.dict[i][2], 10)>>])>>,
             <<K("fc"), PyRound(cm.field_coherence, 10)>>,
             <<K("ms"), cm.metabolic_state>>>>)

\* a to_compact_dict that writes "f" and "rc" whatever the fields hold
compact_placeholders(ev) ==
    <<<<K("f"), ev.frequency_hz>>, <<K("rc"), ev.requires_confirmation>>>>

\* the optional entries of OptimizedFBIPEvent.to_compact_dict, in order
CompactOptional(ev) ==
    (IF ~IsInstance(ev.frequency_hz, "none")
       THEN <<<<K("f"), PyRound(ev.frequency_hz, 1000)>>>> ELSE <<>>)
    \o (IF ~IsInstance(ev.quantum_state, "none")
          THEN <<<<K("qs"), QuantumState_to_compact_dict(ev.quantum_state)>>>> ELSE <<>>)
    \o (IF Num(ev.superposition_count) > 0
          THEN <<<<K("sc"), ev.superposition_count>>>> ELSE <<>>)
    \o (IF Num(ev.entanglement_strength) > 0
          THEN <<<<K("es"), PyRound(ev.entanglement_strength, 10)>>>> ELSE <<>>)
    \o (IF ~IsInstance(ev.consciousness_metrics, "none")
          THEN <<<<K("cm"), ConsciousnessMetrics_to_compact_dict(ev.consciousness_metrics)>>>>
          ELSE <<>>)
    \o (IF Truthy(ev.sdc_chip_targets)
          THEN <<<<K("sdc"), ev.sdc_chip_targets>>>> ELSE <<>>)
    \o (IF ~IsInstance(ev.memristor_pattern, "none")
          THEN <<<<K("mp"), PyBytes(tobytes(ev.memristor_pattern.ndarray))>>>> ELSE <<>>)
    \o (IF Truthy(ev.requires_confirmation)
          THEN <<<<K("rc"), PyBool(TRUE)>>>> ELSE <<>>)
    \o (IF Truthy(ev.user_context)
          /\ Truthy(FilterKeys(ev.user_context,
                               {K("user_id"), K("session_id"), K("priority")}))
          THEN <<<<K("uc"), FilterKeys(ev.user_context,
                                       {K("user_id"), K("session_id"), K("priority")})>>>>
          ELSE <<>>)

\* OptimizedFBIPEvent.to_compact_dict
to_compact_dict(ev) ==
    PyDict(<<<<K("id"), ev.event_id>>,
             <<K("ts"), ev.timestamp>>,
             <<K("v"), ev.version>>,
             <<K("st"), PyInt(ev.signal_type)>>,
             <<K("i"), PyRound(ev.intensity, 10)>>,
             <<K("d"), ev.duration_ms>>,
             <<K("at"), PyInt(ev.action_type)>>,
             <<K("tn"), PyInt(ev.target_network)>>,
             <<K("nodes"), ev.target_nodes>>,
             <<K("params"), ev.action_parameters>>,
             <<K("p"), PyInt(ev.priority)>>,
             <<K("eb"), PyRound(ev.energy_budget, 100)>>>>
           \o CompactOptional(ev))

\* FBIPProtocolV3._reconstruct_event_from_dict, for the facade's session id
reconstruct_event_from_dict(data, sid) ==
    IF ~(IsInstance(data, "dict") \/ IsInstance(data, "list") \/ IsInstance(data, "str"))
    THEN Raise("TypeError: argument is not iterable")
    ELSE IF ~IsInstance(data, "dict") THEN Raise("TypeError: indices must be integers")
    ELSE
    LET qs == IF HasKey(data, K("qs"))
              THEN QuantumState_from_compact_dict(Item(data, K("qs"))) ELSE Ok(PyNone)
        cmd == Get(data, K("cm"), PyNone)
        cl == Subscript(cmd, K("cl"))
        ec == Subscript(cmd, K("ec"))
        na == Subscript(cmd, K("na"))
        fc == Subscript(cmd, K("fc"))
        ms == Subscript(cmd, K("ms"))
        cm == IF HasKey(data, K("cm"))
              THEN FirstRaise(<<cl, ec, na, fc, ms>>,
                              [consciousness_level |-> cl.val, energy_cost |-> ec.val,
                               network_allocation |-> na.val, field_coherence |-> fc.val,
                               metabolic_state |-> ms.val])
              ELSE Ok(PyNone)
        mp == IF HasKey(data, K("mp"))
              THEN np_frombuffer(Subscript(data, K("mp"))) ELSE Ok(PyNone)
        id == Subscript(data, K("id"))
        ts == Subscript(data, K("ts"))
        st == LET x == Subscript(data, K("st"))
              IN  IF x.ok THEN EnumByValue(SignalTypeMembers, x.val) ELSE x
        i == Subscript(data, K("i"))
        d == Subscript(data, K("d"))
        at == LET x == Subscript(data, K("at"))
              IN  IF x.ok THEN EnumByValue(ActionTypeMembers, x.val) ELSE x
        tn == LET x == Subscript(data, K("tn"))
              IN  IF x.ok THEN EnumByValue(ConsciousnessNetworkMembers, x.val) ELSE x
        nodes == Subscript(data, K("nodes"))
        params == Subscript(data, K("params"))
        p == LET x == Subscript(data, K("p"))
             IN  IF x.ok THEN EnumByValue(PriorityMembers, x.val) ELSE x
        eb == Subscript(data, K("eb"))
    IN  FirstRaise(<<qs, cm, mp, id, ts, st, i, d, at, tn, nodes, params, p, eb>>,
          [event_id |-> id.val,
           timestamp |-> ts.val,
           version |-> Get(data, K("v"), PyInt(FBIP_VERSION)),
           signal_type |-> st.val,
           intensity |-> i.val,
           duration_ms |-> d.val,
           frequency_hz |-> Get(data, K("f"), PyNone),
           quantum_state |-> qs.val,
           superposition_count |-> Get(data, K("sc"), PyInt(0)),
           entanglement_strength |-> Get(data, K("es"), PyFloat(0)),
           consciousness_metrics |-> cm.val,
           action_type |-> at.val,
           target_network |-> tn.val,
           target_nodes |-> nodes.val,
           action_parameters |-> params.val,
           sdc_chip_targets |-> Get(data, K("sdc"), PyNone),
           memristor_pattern |-> mp.val,
           user_context |-> Get(data, K("uc"), PyNone),
           session_context |-> PyDict(<<<<K("session_id"), sid>>>>),
           priority |-> p.val,
           requires_confirmation |-> Get(data, K("rc"), PyBool(FALSE)),
           energy_budget |-> eb.val])

-----------------------------------------------------------------------------
(* FBIPProtocolV3.create_event and its helpers, as functions of the        *)
(* arguments, of the facade fields they read (sequence_number, session_id) *)
(* of the time time.time() returns (now, in ms) and of the draw r of       *)
(* numpy's random generator.                                               *)

\* min(a, b) and max(a, b) of Python: the first argument wins a tie
PyMin(a, b) == IF Num(b) < Num(a) THEN b ELSE a
PyMax(a, b) == IF Num(b) > Num(a) THEN b ELSE a

\* format(n, "0{width}x") for 0 <= n < 16^width
RECURSIVE Hex(_, _)
Hex(n, width) ==
    IF width = 0 THEN <<>>
    ELSE Hex(n \div 16, width - 1)
           \o <<IF n % 16 < 10 THEN 48 + (n % 16) ELSE 87 + (n % 16)>>

\* f"fbip_{seq:08x}_{int(time.time() * 1000) & 0xFFFF}": a seq of more than
\* eight hexadecimal digits is written in full
EventId(seq, now) ==
    LET digits == Concat([k \in 1..Len(seq.long) |-> Hex(seq.long[k], 2)])
        hex == IF IsInstance(seq, "int") THEN Hex(seq.int, 8)
               ELSE IF digits[1] = 48 THEN Tail(digits) ELSE digits
    IN  PyStrOf(Utf8["fbip_"] \o hex \o Utf8["_"] \o Digits(now % 65536))

\* the numbers a draw r of the random generator yields: a unit vector of n
\* amplitudes in [0, 1), n phases in [0, 2 pi), a pattern in [0, 1)
RandomAmplitudes(n, r) ==
    [k \in 1..n |-> IF n = 1 THEN One
                    ELSE IF k = (r % n) + 1 THEN (6 * One) \div 10
                    ELSE IF k = ((r + 1) % n) + 1 THEN (8 * One) \div 10
                    ELSE 0]
RandomPhases(n, r) == [k \in 1..n |-> (k * r * One) \div 2]
RandomPattern(n, r) == [k \in 1..n |-> (k * r * 137) % One]

\* FBIPProtocolV3._validate_signal_data
validate_signal_data(signal_data) == HasKey(signal_data, K("signal"))

\* FBIPProtocolV3._validate_action_spec
validate_action_spec(action_spec) == IsInstance(action_spec, "dict")

\* FBIPProtocolV3._is_quantum_signal
is_quantum_signal(signal_type) == signal_type \in {4, 16, 17, 18, 19, 34}

\* Enum[name_value.upper()] without the except clause
strict_enum_name(members, name_value, fallback) ==
    IF ~IsInstance(name_value, "str") THEN Raise("AttributeError: no attribute upper")
    ELSE EnumByName(members, Upper(name_value.str))

\* Enum[name_value.upper()] with the except KeyError fallback of create_event
ParseEnumName(members, name_value, fallback) ==
    IF ~IsInstance(name_value, "str") THEN Raise("AttributeError: no attribute upper")
    ELSE LET m == EnumByName(members, Upper(name_value.str))
         IN  IF m.ok THEN m ELSE Ok(fallback)

\* FBIPProtocolV3._create_optimized_quantum_state
create_optimized_quantum_state(signal_data, r) ==
    LET sc == Get(signal_data, K("superposition_count"), PyInt(3))
    IN  IF ~IsInstance(sc, "int") THEN Raise("TypeError: size is not an integer")
        ELSE IF PyMin(PyInt(8), sc).int < 0
             THEN Raise("ValueError: negative dimensions are not allowed")
        ELSE LET size == PyMin(PyInt(8), sc).int
             IN  Ok([amplitudes |-> PyArray(RandomAmplitudes(size, r)),
                     phases |-> PyArray(RandomPhases(size, r)),
                     coherence_time |-> Get(signal_data, K("coherence_time"),
                                            PyFloat(2 * One)),
                     entanglements |-> PyList(<<>>),
                     measurement_basis |-> K("consciousness")])

\* FBIPProtocolV3._create_optimized_consciousness_metrics:
\* min(1.0, intensity * 1.2) and intensity * 25.0 * (duration_ms / 1000.0)
create_optimized_consciousness_metrics(signal_data, action_spec, context) ==
    LET intensity == Get(signal_data, K("intensity"), PyFloat(One \div 2))
        duration == Get(signal_data, K("duration_ms"), PyInt(200))
    IN  IF ~IsNumber(intensity) \/ ~IsNumber(duration)
        THEN Raise("TypeError: unsupported operand")
        ELSE Ok([consciousness_level |->
                    PyMin(PyFloat(One), PyFloat((Num(intensity) * 12) \div 10)),
                 energy_cost |->
                    PyFloat((Num(intensity) * (Num(duration) \div One)) \div 40),
                 network_allocation |->
                    PyDict(<<<<PyInt(0), PyFloat((5 * One) \div 10)>>,
                             <<PyInt(1), PyFloat((3 * One) \div 10)>>,
                             <<PyInt(2), PyFloat((2 * One) \div 10)>>>>),
                 field_coherence |-> PyFloat((8 * One) \div 10),
                 metabolic_state |-> K("healthy")])

\* FBIPProtocolV3._create_optimized_hardware_targeting
create_optimized_hardware_targeting(network, action_spec, r) ==
    [sdc_targets |-> IF network = 0 THEN PyList(<<PyInt(0), PyInt(1)>>)
                     ELSE IF network = 1 THEN PyList(<<PyInt(2), PyInt(3)>>)
                     ELSE PyList(<<PyInt(0)>>),
     memristor_pattern |-> PyArray(RandomPattern(64, r))]

\* a _sanitize_context that keeps every field
keep_context(context) == IF ~Truthy(context) THEN PyNone ELSE context

\* FBIPProtocolV3._sanitize_context
sanitize_context(context) ==
    IF ~Truthy(context) THEN PyNone
    ELSE LET sanitized == FilterKeys(context, {K("user_id"), K("session_id"),
                                               K("priority"), K("emotional_state")})
         IN  IF Truthy(sanitized) THEN sanitized ELSE PyNone

\* a create_event that takes the number as it is
unclamped(x) == Ok(x)

\* max(0.0, min(1.0, x))
Clamp01(x) ==
    IF ~IsNumber(x) THEN Raise("TypeError: not supported between instances")
    ELSE Ok(PyMax(PyFloat(0), PyMin(PyFloat(One), x)))

\* a facade whose create_event counts each Event twice
skip_sequence_number(loaded) == PyInt(loaded.int + 2)

\* a facade whose create_event stores back the value it loaded
keep_sequence_number(loaded) == loaded

\* self.sequence_number += 1: the value stored for the value loaded, a
\* Python int, which has no largest value
next_sequence_number(loaded) ==
    LET RECURSIVE Successor(_)
        Successor(b) ==
            IF b = <<>> THEN <<1>>
            ELSE IF b[Len(b)] < 255 THEN [b EXCEPT ![Len(b)] = @ + 1]
            ELSE Successor(SubSeq(b, 1, Len(b) - 1)) \o <<0>>
    IN  IF ~IsInstance(loaded, "int") THEN PyLong(Successor(loaded.long))
        ELSE IF loaded.int < 2147483647 THEN PyInt(loaded.int + 1)
        ELSE PyLong(<<128, 0, 0, 0>>)

\* the body of create_event's try block up to the construction of the
\* Event: the Event, or the exception raised
\* a create_event that keeps a whole number the caller gave as priority
keep_priority(priority_val) ==
    IF IsInstance(priority_val, "int") THEN priority_val.int ELSE 5

\* create_event, lines 448-452: Priority(priority_val), or NORMAL when the
\* value is the value of no member
parse_priority(priority_val) ==
    Let(EnumByValue(PriorityMembers, priority_val), LAMBDA priority :
        IF priority.ok THEN priority.val ELSE 5)

create_event(signal_data, action_spec, context, seq, sid, now, r) ==
    IF ~IsInstance(signal_data, "dict") THEN Raise("TypeError: argument is not iterable")
    ELSE IF ~validate_signal_data(signal_data) THEN Raise("ValueError: Invalid signal data")
    ELSE IF ~validate_action_spec(action_spec)
         THEN Raise("ValueError: Invalid action specification")
    ELSE
    LET st == ParseEnumName(SignalTypeMembers,
                            Get(signal_data, K("signal"), K("alpha_peak")), 0)
        qs == IF st.ok /\ is_quantum_signal(st.val)
              THEN create_optimized_quantum_state(signal_data, r) ELSE Ok(PyNone)
        cm == create_optimized_consciousness_metrics(signal_data, action_spec, context)
        at == ParseEnumName(ActionTypeMembers,
                            Get(action_spec, K("action_type"), K("highlight_cluster")), 0)
        tn == ParseEnumName(ConsciousnessNetworkMembers,
                            Get(action_spec, K("target_network"), K("executive")), 0)
        pr == parse_priority(Get(action_spec, K("priority"), PyInt(5)))
        hw == IF tn.ok /\ Truthy(Get(action_spec, K("enable_hardware"), PyBool(FALSE)))
              THEN create_optimized_hardware_targeting(tn.val, action_spec, r)
              ELSE [sdc_targets |-> PyNone, memristor_pattern |-> PyNone]
        intensity == Clamp01(Get(signal_data, K("intensity"), PyFloat(One \div 2)))
        duration == LET d == Get(signal_data, K("duration_ms"), PyInt(200))
                    IN  IF IsNumber(d) THEN Ok(PyMax(PyInt(1), d))
                        ELSE Raise("TypeError: not supported between instances")
        es == Clamp01(Get(signal_data, K("entanglement_strength"), PyFloat(0)))
    IN  FirstRaise(<<st, qs, cm, at, tn, intensity, duration, es>>,
          [event_id |-> EventId(seq, now),
           timestamp |-> PyFloat(now * 10),
           version |-> PyInt(FBIP_VERSION),
           signal_type |-> st.val,
           intensity |-> intensity.val,
           duration_ms |-> duration.val,
           frequency_hz |-> Get(signal_data, K("frequency_hz"), PyNone),
           quantum_state |-> qs.val,
           superposition_count |-> Get(signal_data, K("superposition_count"), PyInt(0)),
           entanglement_strength |-> es.val,
           consciousness_metrics |-> cm.val,
           action_type |-> at.val,
           target_network |-> tn.val,
           target_nodes |-> Get(action_spec, K("target_nodes"), PyList(<<>>)),
           action_parameters |-> Get(action_spec, K("parameters"), PyDict(<<>>)),
           sdc_chip_targets |-> hw.sdc_targets,
           memristor_pattern |-> hw.memristor_pattern,
           user_context |-> sanitize_context(context),
           session_context |-> PyDict(<<<<K("session_id"), sid>>,
                                        <<K("sequence"), seq>>>>),
           priority |-> pr,
           requires_confirmation |->
               Get(action_spec, K("requires_confirmation"), PyBool(FALSE)),
           energy_budget |-> Get(action_spec, K("energy_budget"), PyFloat(0))])

-----------------------------------------------------------------------------
(* Serialization, format detection and deserialization of FBIPProtocolV3.  *)

\* a _create_binary_packet whose checksum covers the magic and the payload
create_binary_packet_framed_checksum(packet_type, data) ==
    Let(IF IsInstance(data, "dict") THEN packb(data) ELSE data.bytes, LAMBDA data_bytes :
        PacketHeader_pack(packet_type, 0, Len(data_bytes),
                          crc32(FBIP_MAGIC_BYTES \o data_bytes))
          \o data_bytes)

\* FBIPProtocolV3._create_binary_packet: data is a bytes value or a dict
create_binary_packet(packet_type, data) ==
    Let(IF IsInstance(data, "dict") THEN packb(data) ELSE data.bytes, LAMBDA data_bytes :
        PacketHeader_pack(packet_type, 0, Len(data_bytes), crc32(data_bytes))
          \o data_bytes)

\* FBIPProtocolV3._serialize_json
serialize_json(ev) ==
    Let(PyDict(<<<<K("protocol_version"), K("FBIP_v3.0")>>,
                 <<K("format"), K("json")>>,
                 <<K("event"), to_compact_dict(ev)>>>>), LAMBDA data :
        IF JsonSerializable(data) THEN Ok(dumps_compact(data))
        ELSE Raise("TypeError: Object is not JSON serializable"))

\* FBIPProtocolV3._serialize_msgpack
serialize_msgpack(ev) ==
    Let(to_compact_dict(ev), LAMBDA compact_data :
        IF Packable(compact_data) THEN Ok(packb(compact_data))
        ELSE Raise("TypeError: can not serialize object"))

\* FBIPProtocolV3._serialize_binary
serialize_binary(ev) ==
    Let(serialize_msgpack(ev), LAMBDA packed_data :
        IF ~packed_data.ok THEN packed_data
        ELSE Ok(create_binary_packet(SINGLE_EVENT, PyBytes(packed_data.val))))

\* FBIPProtocolV3._serialize_compressed
serialize_compressed(ev, threshold) ==
    Let(serialize_msgpack(ev), LAMBDA binary_data :
        IF ~binary_data.ok THEN binary_data
        ELSE IF Len(binary_data.val) > threshold
             THEN Let(compress(binary_data.val), LAMBDA compressed_data :
                      Ok(PacketHeader_pack(SINGLE_EVENT, FLAG_COMPRESSED,
                                           Len(compressed_data),
                                           crc32(compressed_data))
                           \o compressed_data))
        ELSE binary_data)

\* the serializer serialize_event picks for format_type
serialize_as(ev, format_type, threshold) ==
    CASE format_type = "json" -> serialize_json(ev)
      [] format_type = "binary" -> serialize_binary(ev)
      [] format_type = "msgpack" -> serialize_msgpack(ev)
      [] format_type = "compressed" -> serialize_compressed(ev, threshold)
      [] OTHER -> Raise("ValueError: Unsupported format")

\* the try block of serialize_event: the bytes and the sizes handed to
\* record_serialization, or the exception
serialize_event(ev, format_type, threshold) ==
    Let(serialize_as(ev, format_type, threshold), LAMBDA data :
        IF ~data.ok THEN data
        ELSE Let(to_compact_dict(ev), LAMBDA compact :
                 IF ~JsonSerializable(compact)
                 THEN Raise("TypeError: Object is not JSON serializable")
                 ELSE Ok([data |-> data.val,
                          original_size |-> Len(dumps(compact)),
                          final_size |-> Len(data.val)])))

\* a batch_data whose events are the framed packets of the Events
batch_data_framed(evs, sid, now) ==
    PyDict(<<<<K("type"), K("batch")>>,
             <<K("count"), PyInt(Len(evs))>>,
             <<K("events"), PyList([k \in 1..Len(evs) |->
                                       PyBytes(serialize_binary(evs[k]).val)])>>,
             <<K("timestamp"), PyFloat(now * 10)>>,
             <<K("session_id"), sid>>>>)

\* the batch_data of batch_events
batch_data(evs, sid, now) ==
    PyDict(<<<<K("type"), K("batch")>>,
             <<K("count"), PyInt(Len(evs))>>,
             <<K("events"), PyList([k \in 1..Len(evs) |-> to_compact_dict(evs[k])])>>,
             <<K("timestamp"), PyFloat(now * 10)>>,
             <<K("session_id"), sid>>>>)

\* a batch_events that frames the batch as a single event
batch_events_as_single(evs, format, sid, now) ==
    Ok(create_binary_packet(SINGLE_EVENT, PyBytes(packb(batch_data(evs, sid, now)))))

\* FBIPProtocolV3.batch_events: the packet, or the exception; with the BINARY
\* default _create_binary_packet packs the dict, otherwise batch_events does
batch_events(evs, format, sid, now) ==
    Let(batch_data(evs, sid, now), LAMBDA data :
        IF ~Packable(data) THEN Raise("TypeError: can not serialize object")
        ELSE IF format = "binary" THEN Ok(create_binary_packet(BATCH_EVENTS, data))
        ELSE Ok(create_binary_packet(BATCH_EVENTS, PyBytes(packb(data)))))

\* FBIPProtocolV3._detect_format
detect_format(data) ==
    IF Len(data) < 4 THEN Raise("ValueError: Data too short for format detection")
    ELSE IF SubSeq(data, 1, 4) = FBIP_MAGIC_BYTES THEN Ok("binary")
    ELSE IF data[1] = 123 /\ data[Len(data)] = 125 /\ loads(data).ok THEN Ok("json")
    ELSE IF SubSeq(data, 1, 2) = <<120, 156>> \/ SubSeq(data, 1, 2) = <<120, 1>>
         THEN Ok("compressed")
    ELSE Ok("msgpack")

\* FBIPProtocolV3._deserialize_json
deserialize_json(data, sid) ==
    Let(loads(data), LAMBDA json_data :
        IF ~json_data.ok THEN json_data
        ELSE Let(Subscript(json_data.val, K("event")), LAMBDA event_data :
                 IF ~event_data.ok THEN event_data
                 ELSE reconstruct_event_from_dict(event_data.val, sid)))

\* FBIPProtocolV3._deserialize_msgpack
deserialize_msgpack(data, sid) ==
    Let(unpackb(data), LAMBDA event_data :
        IF ~event_data.ok THEN event_data
        ELSE reconstruct_event_from_dict(event_data.val, sid))

\* a _deserialize_binary that does not compare the checksums
deserialize_binary_unverified(data, sid) ==
    Let(PacketHeader_unpack(data), LAMBDA header :
        IF ~header.ok THEN header
        ELSE deserialize_msgpack(Slice(data, HEADER_SIZE + 1, Len(data)), sid))

\* FBIPProtocolV3._deserialize_binary
deserialize_binary(data, sid) ==
    Let(PacketHeader_unpack(data), LAMBDA header :
        Let(Slice(data, HEADER_SIZE + 1, Len(data)), LAMBDA payload_data :
            IF ~header.ok THEN header
            ELSE IF crc32(payload_data) # header.val.checksum
                 THEN Raise("ValueError: Packet checksum mismatch")
            ELSE deserialize_msgpack(payload_data, sid)))

\* FBIPProtocolV3._deserialize_compressed
deserialize_compressed(data, sid) ==
    Let(PacketHeader_unpack(data), LAMBDA header :
        Let(Slice(data, HEADER_SIZE + 1, Len(data)), LAMBDA compressed_data :
            IF ~header.ok THEN header
            ELSE IF crc32(compressed_data) # header.val.checksum
                 THEN Raise("ValueError: Compressed packet checksum mismatch")
            ELSE Let(IF header.val.flags % 2 = 1 THEN decompress(compressed_data)
                     ELSE Ok(compressed_data), LAMBDA decompressed_data :
                     IF ~decompressed_data.ok THEN decompressed_data
                     ELSE deserialize_msgpack(decompressed_data.val, sid))))

\* the deserializer deserialize_event picks for the detected format
deserialize_as(format_type, data, sid) ==
    CASE format_type = "json" -> deserialize_json(data, sid)
      [] format_type = "binary" -> deserialize_binary(data, sid)
      [] format_type = "msgpack" -> deserialize_msgpack(data, sid)
      [] format_type = "compressed" -> deserialize_compressed(data, sid)
      [] OTHER -> Raise("ValueError: Unknown format detected")

\* the try block of deserialize_event: the Event, or the exception
deserialize_event(data, sid) ==
    Let(detect_format(data), LAMBDA format_type :
        IF ~format_type.ok THEN format_type
        ELSE deserialize_as(format_type.val, data, sid))

-----------------------------------------------------------------------------
(* The callers of the facade: the arguments they pass to create_event, the *)
(* bytes a peer sends, and what the network does to bytes in flight.       *)

NoThread == 0
NoCall == [op |-> "none"]
InitialSessionId == K("sess-0001")
PeerSessionId == K("peer_0001")
\* int(time.time() * 1000) when the facade is constructed
ClockStart == 1000
\* protocol.compression_threshold = 256 of create_high_performance_fbip
AGGRESSIVE_THRESHOLD == 256

\* FBIPProtocolV3.__init__, lines 375-376
FBIPProtocolV3_configuration ==
    [enable_compression |-> TRUE, compression_threshold |-> COMPRESSION_THRESHOLD]

\* create_high_performance_fbip(format_type, enable_compression), lines 921-926
create_high_performance_fbip(enable) ==
    [enable_compression |-> enable,
     compression_threshold |-> IF enable THEN AGGRESSIVE_THRESHOLD
                               ELSE COMPRESSION_THRESHOLD]

Nodes(n) == PyList([k \in 1..n |-> K("n1")])

PlainAction ==
    PyDict(<<<<K("action_type"), K("highlight_cluster")>>,
             <<K("target_network"), K("executive")>>,
             <<K("target_nodes"), Nodes(1)>>,
             <<K("priority"), PyInt(8)>>>>)

\* a well-formed classical signal with a caller context
PlainCall ==
    <<PyDict(<<<<K("signal"), K("alpha_peak")>>,
               <<K("intensity"), PyFloat(4321)>>,
               <<K("duration_ms"), PyInt(400)>>>>),
      PlainAction,
      PyDict(<<<<K("user_id"), K("u1")>>,
               <<K("emotional_state"), K("calm")>>,
               <<K("token"), K("secret")>>>>)>>

\* a well-formed quantum signal: gamma_sync at 40 Hz, priority 8, no context
QuantumCall ==
    <<PyDict(<<<<K("signal"), K("gamma_sync")>>,
               <<K("intensity"), PyFloat((8 * One) \div 10)>>,
               <<K("duration_ms"), PyInt(400)>>,
               <<K("frequency_hz"), PyFloat(40 * One)>>>>),
      PyDict(<<<<K("action_type"), K("create_superposition")>>,
               <<K("target_network"), K("executive")>>,
               <<K("target_nodes"), Nodes(1)>>,
               <<K("priority"), PyInt(8)>>>>),
      PyNone>>

\* signal_data without the "signal" key
MissingSignalCall ==
    <<PyDict(<<<<K("intensity"), PyFloat(One \div 2)>>>>), PlainAction, PyNone>>

\* a signal name that is not a string
NonStringNameCall ==
    <<PyDict(<<<<K("signal"), PyInt(7)>>>>), PlainAction, PyNone>>

\* numbers out of range, names and a priority no enum has
OutOfRangeCall ==
    <<PyDict(<<<<K("signal"), K("warp")>>,
               <<K("intensity"), PyFloat((15 * One) \div 10)>>,
               <<K("duration_ms"), PyInt(0 - 5)>>,
               <<K("entanglement_strength"), PyFloat(0 - One)>>>>),
      PyDict(<<<<K("action_type"), K("warp")>>,
               <<K("target_network"), K("warp")>>,
               <<K("priority"), PyInt(7)>>,
               <<K("energy_budget"), PyFloat(0 - One)>>>>),
      PyDict(<<<<K("token"), K("secret")>>>>)>>

\* a well-formed classical signal whose action names many nodes
LargeCall ==
    <<PyDict(<<<<K("signal"), K("telepathy")>>,
               <<K("intensity"), PyFloat(One)>>,
               <<K("duration_ms"), PyInt(200)>>>>),
      PyDict(<<<<K("action_type"), K("highlight_cluster")>>,
               <<K("target_network"), K("memory")>>,
               <<K("target_nodes"), Nodes(24)>>,
               <<K("parameters"), PyDict(<<<<K("mode"), K("fast")>>>>)>>,
               <<K("requires_confirmation"), PyBool(TRUE)>>>>),
      PyDict(<<<<K("user_id"), K("u1")>>,
               <<K("priority"), PyInt(1)>>>>)>>

\* well-formed calls whose numbers run below, within and above the ranges of
\* an Event and whose names an enum has or has not
RangeCalls ==
    {<<PyDict(<<<<K("signal"), name>>,
                <<K("intensity"), PyFloat(intensity)>>,
                <<K("duration_ms"), PyInt(duration_ms)>>,
                <<K("entanglement_strength"), PyFloat(entanglement_strength)>>>>),
       PyDict(<<<<K("action_type"), name>>,
                <<K("target_network"), name>>,
                <<K("energy_budget"), PyFloat(energy_budget)>>>>),
       PyNone>> :
         name \in {K("memory"), K("warp")},
         intensity \in {0 - (One \div 2), One \div 2, (15 * One) \div 10},
         duration_ms \in {0 - 5, 400},
         entanglement_strength \in {0 - One, One \div 2, 2 * One},
         energy_budget \in {0 - One, (25 * One) \div 10}}

\* a quantum signal with every optional field and an action that enables
\* the hardware targeting and asks for confirmation
HardwareCall ==
    <<PyDict(<<<<K("signal"), K("entanglement_event")>>,
               <<K("intensity"), PyFloat((8 * One) \div 10)>>,
               <<K("duration_ms"), PyInt(400)>>,
               <<K("frequency_hz"), PyFloat(40 * One)>>,
               <<K("superposition_count"), PyInt(2)>>,
               <<K("entanglement_strength"), PyFloat(One \div 2)>>>>),
      PyDict(<<<<K("action_type"), K("highlight_cluster")>>,
               <<K("target_network"), K("memory")>>,
               <<K("target_nodes"), Nodes(1)>>,
               <<K("enable_hardware"), PyBool(TRUE)>>,
               <<K("requires_confirmation"), PyBool(TRUE)>>>>),
      PyDict(<<<<K("session_id"), K("u1")>>,
               <<K("priority"), PyInt(1)>>,
               <<K("emotional_state"), K("calm")>>>>)>>

\* a well-formed classical signal whose msgpack payload is longer than
\* COMPRESSION_THRESHOLD
ManyNodesCall ==
    <<PyDict(<<<<K("signal"), K("telepathy")>>,
               <<K("intensity"), PyFloat(One)>>,
               <<K("duration_ms"), PyInt(200)>>>>),
      PyDict(<<<<K("action_type"), K("highlight_cluster")>>,
               <<K("target_network"), K("memory")>>,
               <<K("target_nodes"), Nodes(MaxNodes)>>>>),
      PyNone>>

\* a well-formed classical signal whose action parameters hold a numpy array
ArrayParametersCall ==
    <<PyDict(<<<<K("signal"), K("alpha_peak")>>,
               <<K("intensity"), PyFloat(One \div 2)>>,
               <<K("duration_ms"), PyInt(100)>>>>),
      PyDict(<<<<K("action_type"), K("highlight_cluster")>>,
               <<K("target_network"), K("executive")>>,
               <<K("parameters"),
                 PyDict(<<<<K("mode"), [ndarray |-> <<One, 2 * One>>]>>>>)>>>>),
      PyNone>>

\* the values a caller gives as priority: the values of the members, whole
\* numbers between and beyond them, and values that are no whole number
PriorityInputs ==
    {PyInt(n) : n \in {0 - 1, 0, 1, 2, 5, 7, 8, 9, 10, 11}}
      \cup {PyFloat(8 * One), PyFloat(7 * One + One \div 2), K("high"), PyBool(TRUE),
            PyNone}

\* well-formed calls whose action gives each of these values as priority
PriorityCalls ==
    {<<PyDict(<<<<K("signal"), K("alpha_peak")>>,
                <<K("intensity"), PyFloat(One \div 2)>>,
                <<K("duration_ms"), PyInt(100)>>,
                <<K("entanglement_strength"), PyFloat(One \div 2)>>>>),
       PyDict(<<<<K("action_type"), K("highlight_cluster")>>,
                <<K("target_network"), K("executive")>>,
                <<K("energy_budget"), PyFloat(One)>>,
                <<K("priority"), priority_val>>>>),
       PyNone>> : priority_val \in PriorityInputs}

CreateCalls ==
    {PlainCall, QuantumCall, MissingSignalCall, NonStringNameCall,
     OutOfRangeCall, LargeCall}

\* the compact dictionary a peer implementation sends: the required keys and
\* a signal type st, without the optional "cm"
PeerCompact(st) ==
    PyDict(<<<<K("id"), K("peer_0001")>>,
             <<K("ts"), PyFloat(ClockStart * 10)>>,
             <<K("st"), PyInt(st)>>,
             <<K("i"), PyFloat(One \div 2)>>,
             <<K("d"), PyInt(200)>>,
             <<K("at"), PyInt(0)>>,
             <<K("tn"), PyInt(1)>>,
             <<K("nodes"), Nodes(1)>>,
             <<K("params"), PyDict(<<>>)>>,
             <<K("p"), PyInt(5)>>,
             <<K("eb"), PyFloat(0)>>>>)

\* a valid framed packet of a peer
PeerBinaryPacket == create_binary_packet(SINGLE_EVENT, PeerCompact(1))
\* a valid framed packet whose signal type no SignalType has
PeerUnknownEnumPacket == create_binary_packet(SINGLE_EVENT, PeerCompact(9999))
\* a valid JSON packet of a peer
PeerJsonPacket ==
    dumps_compact(PyDict(<<<<K("protocol_version"), K("FBIP_v3.0")>>,
                           <<K("format"), K("json")>>,
                           <<K("event"), PeerCompact(1)>>>>))
\* the valid framed packet of a peer whose header declares version 3.0
PeerNewerVersionPacket ==
    SubSeq(PeerBinaryPacket, 1, 4) \o U16(FBIP_VERSION + 256)
      \o SubSeq(PeerBinaryPacket, 7, Len(PeerBinaryPacket))
\* the valid framed packet of a peer with the first byte of the next packet
\* of the stream behind it
PeerTrailingPacket == PeerBinaryPacket \o <<FBIP_MAGIC_BYTES[1]>>
\* fewer bytes than the magic
ShortPacket == <<70, 66>>
\* sixteen header bytes that do not start with the magic
BadMagicPacket == <<88>> \o Tail(SubSeq(PeerBinaryPacket, 1, HEADER_SIZE))

IsFramed(data) == Len(data) >= 4 /\ SubSeq(data, 1, 4) = FBIP_MAGIC_BYTES

\* where the payload of data starts: behind the header of a framed packet
PayloadOffset(data) == IF IsFramed(data) THEN HEADER_SIZE ELSE 0

\* data with bit n of its payload flipped
FlipBit(data, n) ==
    LET at == PayloadOffset(data) + (n \div 8) + 1
    IN  [data EXCEPT ![at] = Xor8(data[at], 2 ^ (n % 8))]

\* what the network can deliver in place of data
Corruptions(data) ==
    {FlipBit(data, n) : n \in {m \in 0..(MaxFlipBits - 1) :
                                  PayloadOffset(data) + (m \div 8) + 1 <= Len(data)}}
      \cup {SubSeq(data, 1, Len(data) - 1), data \o <<0>>}

\* a valid framed packet of a quantum signal whose "qs" carries one
\* amplitude and two phases
PeerUnequalQuantumPacket ==
    create_binary_packet(SINGLE_EVENT,
        PyDict(PeerCompact(17).dict
                 \o <<<<K("qs"),
                        PyDict(<<<<K("a"), PyBytes(tobytes(<<One>>))>>,
                                 <<K("p"), PyBytes(tobytes(<<0, One>>))>>,
                                 <<K("c"), PyFloat(2 * One)>>,
                                 <<K("e"), PyList(<<>>)>>,
                                 <<K("m"), K("consciousness")>>>>)>>>>))

\* the zlib stream of a peer's compact dictionary, without a frame
PeerUnframedCompressedPacket == compress(packb(PeerCompact(1)))

\* packets of a peer, well-formed and not
PeerPackets ==
    {PeerBinaryPacket, PeerJsonPacket, PeerUnequalQuantumPacket,
     PeerUnframedCompressedPacket, ShortPacket}

\* the bytes a caller can hand to deserialize_event
Incoming ==
    {PeerBinaryPacket, PeerUnknownEnumPacket, PeerJsonPacket, ShortPacket,
     BadMagicPacket, PeerNewerVersionPacket, PeerTrailingPacket}
      \cup (IF sent = <<>> THEN {} ELSE {sent} \cup Corruptions(sent))

-----------------------------------------------------------------------------
(* PerformanceStats.                                                       *)

\* the append of a deque without maxlen
unbounded_append(q, x) == Append(q, x)

\* deque(maxlen=1000).append(x)
deque_append(q, x) ==
    IF Len(q) >= HISTORY_MAXLEN THEN Tail(q) \o <<x>> ELSE Append(q, x)

\* PerformanceStats.record_serialization, the lock taken and released
record_serialization(time_ms, original_size, final_size) ==
    /\ serialization_times' = deque_append(serialization_times, time_ms)
    /\ packet_sizes' = deque_append(packet_sizes, final_size)
    /\ compression_ratios' =
           IF original_size > 0
           THEN deque_append(compression_ratios, (final_size * One) \div original_size)
           ELSE compression_ratios
    /\ total_packets' = total_packets + 1

\* a record_error that counts the error twice
record_two_errors == error_count' = error_count + 2

\* PerformanceStats.record_error, the lock taken and released
record_error == error_count' = error_count + 1

\* PerformanceStats.get_stats()["error_rate"], in units of 1/10000
error_rate == (error_count * One) \div Max(1, total_packets)

\* np.mean(q) of a deque q that is not empty, whose entries count unit each
mean(q, unit) ==
    Let(SumRange(q, 1, Len(q)), LAMBDA sum :
        PyFloat((sum \div Len(q)) * unit + ((sum % Len(q)) * unit) \div Len(q)))

\* PerformanceStats.get_stats(), the lock taken and released
get_stats ==
    [avg_serialization_time_ms |->
         IF serialization_times # <<>> THEN mean(serialization_times, One) ELSE PyInt(0),
     avg_packet_size_bytes |->
         IF packet_sizes # <<>> THEN mean(packet_sizes, One) ELSE PyInt(0),
     avg_compression_ratio |->
         IF compression_ratios # <<>> THEN mean(compression_ratios, 1) ELSE PyFloat(One),
     error_rate |-> PyFloat(error_rate),
     total_packets |-> PyInt(total_packets),
     errors |-> PyInt(error_count)]

\* FBIPProtocolV3.get_performance_metrics, for the get_stats() it has read:
\* the entries that depend on the facade (the energy management and the
\* batch sizes are the constants of __init__)
get_performance_metrics(base_stats) ==
    [protocol_version |-> K("3.0"),
     session_id |-> session_id,
     default_format |-> default_format,
     performance |-> base_stats,
     configuration |-> [compression_enabled |-> PyBool(enable_compression),
                        compression_threshold |-> PyInt(compression_threshold)],
     sequence_info |-> [current_sequence |-> sequence_number,
                        acknowledged_count |-> PyInt(0)]]

-----------------------------------------------------------------------------
(* One facade called by one thread: every call runs to its return or its   *)
(* exception in one step.                                                  *)

Threads == {1, 2}

\* the facade of FBIPProtocolV3.__init__ and PerformanceStats.__init__,
\* called directly or by create_high_performance_fbip, after seq create_event
\* calls that returned and n serialize_event and n deserialize_event calls
\* that did
Configured(seq, n, configurations) ==
    /\ sequence_number = seq
    /\ error_count = 0
    /\ total_packets = n
    /\ serialization_times = IF n = 0 THEN <<>> ELSE [k \in 1..n |-> k % 3]
    /\ deserialization_times = IF n = 0 THEN <<>> ELSE [k \in 1..n |-> k % 2]
    /\ compression_ratios =
           IF n = 0 THEN <<>> ELSE [k \in 1..n |-> (One \div 2) + (k % 5)]
    /\ packet_sizes = IF n = 0 THEN <<>> ELSE [k \in 1..n |-> 200 + (k % 7)]
    /\ session_id = InitialSessionId
    /\ default_format \in {"binary", "json"}
    /\ \E configuration \in configurations :
           /\ enable_compression = configuration.enable_compression
           /\ compression_threshold = configuration.compression_threshold
    /\ facade_lock = NoThread
    /\ stats_lock = NoThread
    /\ clock = ClockStart
    /\ events = <<>>
    /\ sent = <<>>
    /\ peer_sequence_number = PyInt(0)
    /\ last = NoCall
    /\ calls = 0
    /\ pc = [t \in Threads |-> "idle"]
    /\ local = [t \in Threads |-> NoCall]

\* a facade constructed directly or by create_high_performance_fbip()
Facade(seq, n) ==
    Configured(seq, n, {FBIPProtocolV3_configuration,
                        create_high_performance_fbip(TRUE)})

Init == Facade(PyInt(0), 0)

\* a millisecond passes
Tick ==
    /\ clock < ClockStart + MaxClock
    /\ clock' = clock + 1
    /\ UNCHANGED <<sequence_number, error_count, total_packets, serialization_times,
                   deserialization_times, compression_ratios, packet_sizes,
                   session_id, default_format, compression_threshold,
                   enable_compression, facade_lock, stats_lock, events, sent,
                   peer_sequence_number, last, calls, pc, local>>

\* FBIPProtocolV3.create_event(call[1], call[2], call[3])
CreateEvent(call, r) ==
    /\ calls < MaxCalls
    /\ Len(events) < MaxEvents
    /\ \E result \in {create_event(call[1], call[2], call[3], sequence_number,
                                  session_id, clock, r)} :
           /\ IF result.ok
              THEN /\ sequence_number' = next_sequence_number(sequence_number)
                   /\ events' = Append(events, result.val)
                   /\ UNCHANGED error_count
              ELSE /\ record_error
                   /\ UNCHANGED <<sequence_number, events>>
           /\ last' = [op |-> "create_event", input |-> call, result |-> result]
    /\ calls' = calls + 1
    /\ UNCHANGED <<total_packets, serialization_times, deserialization_times,
                   compression_ratios, packet_sizes, session_id, default_format,
                   compression_threshold,
                   enable_compression, facade_lock, stats_lock, clock, sent,
                   peer_sequence_number, pc, local>>

\* create_event of a second FBIPProtocolV3 of the same process
PeerCreateEvent ==
    /\ calls < MaxCalls
    /\ Len(events) < MaxEvents
    /\ \E result \in {create_event(PlainCall[1], PlainCall[2], PlainCall[3],
                                  peer_sequence_number, PeerSessionId, clock, 1)} :
           /\ events' = Append(events, result.val)
           /\ last' = [op |-> "peer_create_event", input |-> PlainCall,
                       result |-> result]
    /\ peer_sequence_number' = next_sequence_number(peer_sequence_number)
    /\ calls' = calls + 1
    /\ UNCHANGED <<sequence_number, error_count, total_packets, serialization_times,
                   deserialization_times, compression_ratios, packet_sizes,
                   session_id, default_format, compression_threshold,
                   enable_compression, facade_lock,
                   stats_lock, clock, sent, pc, local>>

\* FBIPProtocolV3.serialize_event(events[i], format) taking elapsed ms
SerializeEvent(i, format, elapsed) ==
    /\ calls < MaxCalls
    /\ \E format_type \in {IF format = "None" THEN default_format ELSE format} :
       \E result \in {serialize_event(events[i], format_type, compression_threshold)} :
           /\ IF result.ok
              THEN /\ record_serialization(elapsed, result.val.original_size,
                                           result.val.final_size)
                   /\ sent' = result.val.data
                   /\ UNCHANGED error_count
              ELSE /\ record_error
                   /\ UNCHANGED <<serialization_times, packet_sizes,
                                  compression_ratios, total_packets, sent>>
           /\ last' = [op |-> "serialize_event",
                       input |-> [event |-> events[i], format_type |-> format_type],
                       result |-> IF result.ok THEN Ok(result.val.data) ELSE result]
    /\ calls' = calls + 1
    /\ UNCHANGED <<sequence_number, deserialization_times, session_id,
                   default_format, compression_threshold,
                   enable_compression, facade_lock, stats_lock,
                   clock, events, peer_sequence_number, pc, local>>

\* FBIPProtocolV3.deserialize_event(data) taking elapsed ms
DeserializeEvent(data, elapsed) ==
    /\ calls < MaxCalls
    /\ \E result \in {deserialize_event(data, session_id)} :
           /\ IF result.ok
              THEN /\ deserialization_times' =
                          deque_append(deserialization_times, elapsed)
                   /\ UNCHANGED error_count
              ELSE /\ record_error
                   /\ UNCHANGED deserialization_times
           /\ last' = [op |-> "deserialize_event", input |-> data, result |-> result]
    /\ calls' = calls + 1
    /\ UNCHANGED <<sequence_number, total_packets, serialization_times,
                   compression_ratios, packet_sizes, session_id, default_format,
                   compression_threshold,
                   enable_compression, facade_lock, stats_lock, clock, events,
                   sent, peer_sequence_number, pc, local>>

\* the lists of Events a caller hands to batch_events: none, those created so
\* far in their order or reversed, and n copies of the latest
Batches(n) ==
    {<<>>, events, Reverse(events)}
      \cup (IF events = <<>> THEN {}
            ELSE {[k \in 1..m |-> events[Len(events)]] : m \in 1..n})

\* a batch_events whose handler of the exception calls record_error
BatchEventsCounted(batch) ==
    /\ calls < MaxCalls
    /\ \E result \in {batch_events(batch, default_format, session_id, clock)} :
           /\ sent' = IF result.ok THEN result.val ELSE sent
           /\ last' = [op |-> "batch_events", input |-> batch, result |-> result]
           /\ error_count' = IF result.ok THEN error_count ELSE error_count + 1
    /\ calls' = calls + 1
    /\ UNCHANGED <<sequence_number, total_packets, serialization_times,
                   deserialization_times, compression_ratios, packet_sizes,
                   session_id, default_format, compression_threshold,
                   enable_compression, facade_lock,
                   stats_lock, clock, events, peer_sequence_number, pc, local>>

\* FBIPProtocolV3.batch_events(batch): no lock is taken and nothing recorded
BatchEvents(batch) ==
    /\ calls < MaxCalls
    /\ \E result \in {batch_events(batch, default_format, session_id, clock)} :
           /\ sent' = IF result.ok THEN result.val ELSE sent
           /\ last' = [op |-> "batch_events", input |-> batch, result |-> result]
    /\ calls' = calls + 1
    /\ UNCHANGED <<sequence_number, error_count, total_packets, serialization_times,
                   deserialization_times, compression_ratios, packet_sizes,
                   session_id, default_format, compression_threshold,
                   enable_compression, facade_lock,
                   stats_lock, clock, events, peer_sequence_number, pc, local>>

\* FBIPProtocolV3.get_performance_metrics()
GetPerformanceMetrics ==
    /\ calls < MaxCalls
    /\ last' = [op |-> "get_performance_metrics", input |-> <<>>,
                result |-> Ok(get_performance_metrics(get_stats))]
    /\ calls' = calls + 1
    /\ UNCHANGED <<sequence_number, error_count, total_packets, serialization_times,
                   deserialization_times, compression_ratios, packet_sizes,
                   session_id, default_format, compression_threshold,
                   enable_compression, facade_lock,
                   stats_lock, clock, events, sent, peer_sequence_number, pc, local>>

Next ==
    \/ Tick
    \/ \E call \in CreateCalls, r \in 1..2 : CreateEvent(call, r)
    \/ PeerCreateEvent
    \/ \E i \in 1..Len(events), format \in ProtocolFormat \cup {"None"}, elapsed \in 0..MaxElapsed :
           SerializeEvent(i, format, elapsed)
    \/ \E data \in Incoming, elapsed \in 0..MaxElapsed : DeserializeEvent(data, elapsed)
    \/ \E batch \in Batches(MaxBatch) : BatchEvents(batch)
    \/ GetPerformanceMetrics

Spec == Init /\ [][Next]_vars

\* a caller that creates Events and batches copies of them
BatchNext ==
    \/ \E call \in CreateCalls, r \in 1..2 : CreateEvent(call, r)
    \/ \E batch \in Batches(MaxCopies) : BatchEvents(batch)

BatchSpec == Init /\ [][BatchNext]_vars

\* the lists a caller hands to batch_events that batches 1, 2, 4, ... 2^n
\* copies of the latest Event
Doublings(n) ==
    IF events = <<>> THEN {}
    ELSE {[k \in 1..(2 ^ d) |-> events[Len(events)]] : d \in 0..n}

\* a caller that creates an Event and sends ever larger batches of it
SizeNext ==
    /\ calls < MaxSizeCalls
    /\ \/ \E call \in CreateCalls, r \in 1..2 : CreateEvent(call, r)
       \/ \E batch \in Doublings(MaxDoublings) : BatchEvents(batch)

SizeSpec == Init /\ [][SizeNext]_vars

\* a caller that creates Events from numbers and names of every range
RangeNext == \E call \in RangeCalls \cup PriorityCalls : CreateEvent(call, 1)

RangeSpec == Init /\ [][RangeNext]_vars

\* a facade that has been in use for long: it has created 2^32 - 2 Events and
\* each history buffer lacks one entry to be full.  Its caller creates,
\* serializes and batches Events and deserializes the packets of a peer.
LongRunInit == Facade(PyLong(<<255, 255, 255, 254>>), HISTORY_MAXLEN - 1)

LongRunNext ==
    \/ \E call \in CreateCalls \cup {HardwareCall}, r \in 1..2 : CreateEvent(call, r)
    \/ \E i \in 1..Len(events), format \in ProtocolFormat \cup {"None"}, elapsed \in 0..MaxElapsed :
           SerializeEvent(i, format, elapsed)
    \/ \E data \in PeerPackets, elapsed \in 0..MaxElapsed : DeserializeEvent(data, elapsed)
    \/ \E batch \in Batches(MaxBatch) : BatchEvents(batch)

LongRunSpec == LongRunInit /\ [][LongRunNext]_vars

\* a facade of every configuration the module constructs, whose caller creates
\* Events of a short payload, of a long payload and of a payload msgpack
\* cannot pack, serializes them in every format and batches them
SwitchInit ==
    Configured(PyInt(0), 0, {FBIPProtocolV3_configuration,
                             create_high_performance_fbip(TRUE),
                             create_high_performance_fbip(FALSE)})

SwitchNext ==
    \/ \E call \in {PlainCall, ManyNodesCall, ArrayParametersCall} : CreateEvent(call, 1)
    \/ \E i \in 1..Len(events), format \in ProtocolFormat \cup {"None"}, elapsed \in 0..MaxElapsed :
           SerializeEvent(i, format, elapsed)
    \/ \E batch \in Batches(MaxBatch) : BatchEvents(batch)

SwitchSpec == SwitchInit /\ [][SwitchNext]_vars

-----------------------------------------------------------------------------
(* One facade called by the threads of Threads: a call is a sequence of    *)
(* steps, one per access to the state the threads share.  pc[t] is the     *)
(* next step of thread t and local[t] holds the locals of its call.        *)


\* everything but what the steps of a call of thread t may change
MTFrame == <<session_id, default_format, compression_threshold,
             enable_compression, clock, peer_sequence_number>>

\* create_event, lines 400-411: validation, then the id is formatted from
\* sequence_number and the clock as they are now
CreateBegin(t, call) ==
    /\ pc[t] = "idle"
    /\ calls < MaxCalls
    /\ Len(events) < MaxEvents
    /\ calls' = calls + 1
    /\ IF validate_signal_data(call[1]) /\ validate_action_spec(call[2])
       THEN /\ pc' = [pc EXCEPT ![t] = "create_load"]
            /\ local' = [local EXCEPT ![t] =
                           [op |-> "create_event", input |-> call,
                            seq |-> sequence_number, now |-> clock]]
       ELSE /\ pc' = [pc EXCEPT ![t] = "record_error"]
            /\ local' = [local EXCEPT ![t] =
                           [op |-> "create_event", input |-> call,
                            result |-> create_event(call[1], call[2], call[3],
                                                    sequence_number, session_id,
                                                    clock, 1)]]
    /\ UNCHANGED <<sequence_number, error_count, total_packets, serialization_times,
                   deserialization_times, compression_ratios, packet_sizes,
                   facade_lock, stats_lock, events, sent, last>>
    /\ UNCHANGED MTFrame

\* create_event, line 487: sequence_number is loaded
CreateLoad(t) ==
    /\ pc[t] = "create_load"
    /\ pc' = [pc EXCEPT ![t] = "create_store"]
    /\ local' = [local EXCEPT ![t] =
                    [op |-> "create_event", input |-> local[t].input,
                     seq |-> local[t].seq, now |-> local[t].now,
                     loaded |-> sequence_number]]
    /\ UNCHANGED <<sequence_number, error_count, total_packets, serialization_times,
                   deserialization_times, compression_ratios, packet_sizes,
                   facade_lock, stats_lock, events, sent, last, calls>>
    /\ UNCHANGED MTFrame

\* create_event, lines 487-493: the incremented value is stored and the
\* Event returned
CreateStore(t) ==
    /\ pc[t] = "create_store"
    /\ \E result \in {create_event(local[t].input[1], local[t].input[2],
                                   local[t].input[3], local[t].seq, session_id,
                                   local[t].now, 1)} :
           /\ events' = Append(events, result.val)
           /\ last' = [op |-> "create_event", input |-> local[t].input,
                       result |-> result]
    /\ sequence_number' = next_sequence_number(local[t].loaded)
    /\ pc' = [pc EXCEPT ![t] = "idle"]
    /\ local' = [local EXCEPT ![t] = NoCall]
    /\ UNCHANGED <<error_count, total_packets, serialization_times,
                   deserialization_times, compression_ratios, packet_sizes,
                   facade_lock, stats_lock, sent, calls>>
    /\ UNCHANGED MTFrame

\* the except clause of a call: record_error takes the lock of the stats
RecordErrorAcquire(t) ==
    /\ pc[t] = "record_error"
    /\ stats_lock = NoThread
    /\ stats_lock' = t
    /\ pc' = [pc EXCEPT ![t] = "record_error_locked"]
    /\ UNCHANGED <<sequence_number, error_count, total_packets, serialization_times,
                   deserialization_times, compression_ratios, packet_sizes,
                   facade_lock, events, sent, last, calls, local>>
    /\ UNCHANGED MTFrame

\* record_error counts the error and releases the lock; the exception is
\* raised again to the caller
RecordErrorRelease(t) ==
    /\ pc[t] = "record_error_locked"
    /\ record_error
    /\ stats_lock' = NoThread
    /\ last' = [op |-> local[t].op, input |-> local[t].input,
                result |-> local[t].result]
    /\ pc' = [pc EXCEPT ![t] = "idle"]
    /\ local' = [local EXCEPT ![t] = NoCall]
    /\ UNCHANGED <<sequence_number, total_packets, serialization_times,
                   deserialization_times, compression_ratios, packet_sizes,
                   facade_lock, events, sent, calls>>
    /\ UNCHANGED MTFrame

\* serialize_event, lines 504-510: the format is chosen and the lock of the
\* facade taken
SerializeAcquire(t, i, format) ==
    /\ pc[t] = "idle"
    /\ calls < MaxCalls
    /\ facade_lock = NoThread
    /\ facade_lock' = t
    /\ calls' = calls + 1
    /\ pc' = [pc EXCEPT ![t] = "serialize_body"]
    /\ local' = [local EXCEPT ![t] =
                    [op |-> "serialize_event",
                     input |-> [event |-> events[i],
                                format_type |-> IF format = "None" THEN default_format
                                                ELSE format]]]
    /\ UNCHANGED <<sequence_number, error_count, total_packets, serialization_times,
                   deserialization_times, compression_ratios, packet_sizes,
                   stats_lock, events, sent, last>>
    /\ UNCHANGED MTFrame

\* serialize_event, lines 511-526: the bytes and the sizes are computed; an
\* exception leaves the with block, which releases the lock
SerializeBody(t) ==
    /\ pc[t] = "serialize_body"
    /\ \E result \in {serialize_event(local[t].input.event, local[t].input.format_type,
                                      compression_threshold)} :
           /\ local' = [local EXCEPT ![t] =
                           [op |-> "serialize_event", input |-> local[t].input,
                            result |-> IF result.ok THEN Ok(result.val.data)
                                       ELSE result,
                            sizes |-> IF result.ok
                                      THEN <<result.val.original_size,
                                             result.val.final_size>>
                                      ELSE <<>>]]
           /\ pc' = [pc EXCEPT ![t] = IF result.ok THEN "serialize_record"
                                      ELSE "record_error"]
           /\ facade_lock' = IF result.ok THEN facade_lock ELSE NoThread
    /\ UNCHANGED <<sequence_number, error_count, total_packets, serialization_times,
                   deserialization_times, compression_ratios, packet_sizes,
                   stats_lock, events, sent, last, calls>>
    /\ UNCHANGED MTFrame

\* serialize_event, line 528, and record_serialization, line 330: the lock of
\* the stats is taken while the lock of the facade is held
SerializeStats(t) ==
    /\ pc[t] = "serialize_record"
    /\ stats_lock = NoThread
    /\ stats_lock' = t
    /\ pc' = [pc EXCEPT ![t] = "serialize_record_locked"]
    /\ UNCHANGED <<sequence_number, error_count, total_packets, serialization_times,
                   deserialization_times, compression_ratios, packet_sizes,
                   facade_lock, events, sent, last, calls, local>>
    /\ UNCHANGED MTFrame

\* record_serialization, lines 331-338, and serialize_event, lines 535-536: the
\* call is recorded and the lock of the stats released, then the return
\* releases the lock of the facade
SerializeRecord(t, elapsed) ==
    /\ pc[t] = "serialize_record_locked"
    /\ stats_lock' = NoThread
    /\ record_serialization(elapsed, local[t].sizes[1], local[t].sizes[2])
    /\ facade_lock' = NoThread
    /\ sent' = local[t].result.val
    /\ last' = [op |-> "serialize_event", input |-> local[t].input,
                result |-> local[t].result]
    /\ pc' = [pc EXCEPT ![t] = "idle"]
    /\ local' = [local EXCEPT ![t] = NoCall]
    /\ UNCHANGED <<sequence_number, error_count, deserialization_times,
                   events, calls>>
    /\ UNCHANGED MTFrame

\* deserialize_event, lines 546-550: the format is detected outside the lock
DeserializeDetect(t, data) ==
    /\ pc[t] = "idle"
    /\ calls < MaxCalls
    /\ calls' = calls + 1
    /\ \E format_type \in {detect_format(data)} :
           /\ pc' = [pc EXCEPT ![t] = IF format_type.ok THEN "deserialize_acquire"
                                      ELSE "record_error"]
           /\ local' = [local EXCEPT ![t] =
                           [op |-> "deserialize_event", input |-> data,
                            result |-> format_type]]
    /\ UNCHANGED <<sequence_number, error_count, total_packets, serialization_times,
                   deserialization_times, compression_ratios, packet_sizes,
                   facade_lock, stats_lock, events, sent, last>>
    /\ UNCHANGED MTFrame

\* deserialize_event, line 552: the lock of the facade is taken
DeserializeAcquire(t) ==
    /\ pc[t] = "deserialize_acquire"
    /\ facade_lock = NoThread
    /\ facade_lock' = t
    /\ pc' = [pc EXCEPT ![t] = "deserialize_body"]
    /\ UNCHANGED <<sequence_number, error_count, total_packets, serialization_times,
                   deserialization_times, compression_ratios, packet_sizes,
                   stats_lock, events, sent, last, calls, local>>
    /\ UNCHANGED MTFrame

\* a deserialize_event whose handler of the exception runs inside the with block
DeserializeBodyHolding(t, elapsed) ==
    /\ pc[t] = "deserialize_body"
    /\ \E result \in {deserialize_as(local[t].result.val, local[t].input, session_id)} :
           IF result.ok
           THEN /\ facade_lock' = NoThread
                /\ deserialization_times' =
                       deque_append(deserialization_times, elapsed)
                /\ last' = [op |-> "deserialize_event", input |-> local[t].input,
                            result |-> result]
                /\ pc' = [pc EXCEPT ![t] = "idle"]
                /\ local' = [local EXCEPT ![t] = NoCall]
           ELSE /\ pc' = [pc EXCEPT ![t] = "record_error"]
                /\ local' = [local EXCEPT ![t] =
                                [op |-> "deserialize_event", input |-> local[t].input,
                                 result |-> result]]
                /\ UNCHANGED <<deserialization_times, last, facade_lock>>
    /\ UNCHANGED <<sequence_number, error_count, total_packets, serialization_times,
                   compression_ratios, packet_sizes, stats_lock, events, sent, calls>>
    /\ UNCHANGED MTFrame

\* deserialize_event, lines 553-569: the Event is decoded, the time appended
\* and the lock released by the return; an exception releases it too
DeserializeBody(t, elapsed) ==
    /\ pc[t] = "deserialize_body"
    /\ facade_lock' = NoThread
    /\ \E result \in {deserialize_as(local[t].result.val, local[t].input, session_id)} :
           IF result.ok
           THEN /\ deserialization_times' =
                       deque_append(deserialization_times, elapsed)
                /\ last' = [op |-> "deserialize_event", input |-> local[t].input,
                            result |-> result]
                /\ pc' = [pc EXCEPT ![t] = "idle"]
                /\ local' = [local EXCEPT ![t] = NoCall]
           ELSE /\ pc' = [pc EXCEPT ![t] = "record_error"]
                /\ local' = [local EXCEPT ![t] =
                                [op |-> "deserialize_event", input |-> local[t].input,
                                 result |-> result]]
                /\ UNCHANGED <<deserialization_times, last>>
    /\ UNCHANGED <<sequence_number, error_count, total_packets, serialization_times,
                   compression_ratios, packet_sizes, stats_lock, events, sent, calls>>
    /\ UNCHANGED MTFrame

\* batch_events(events), lines 576-598: no lock is taken and no state of the
\* facade written, whether the call returns or raises
BatchCall(t) ==
    /\ pc[t] = "idle"
    /\ calls < MaxCalls
    /\ calls' = calls + 1
    /\ \E result \in {batch_events(events, default_format, session_id, clock)} :
           /\ sent' = IF result.ok THEN result.val ELSE sent
           /\ last' = [op |-> "batch_events", input |-> events, result |-> result]
    /\ UNCHANGED <<sequence_number, error_count, total_packets, serialization_times,
                   deserialization_times, compression_ratios, packet_sizes,
                   facade_lock, stats_lock, events, pc, local>>
    /\ UNCHANGED MTFrame

\* get_performance_metrics, line 603: get_stats takes the lock of the stats
MetricsAcquire(t) ==
    /\ pc[t] = "idle"
    /\ calls < MaxCalls
    /\ stats_lock = NoThread
    /\ stats_lock' = t
    /\ calls' = calls + 1
    /\ pc' = [pc EXCEPT ![t] = "metrics_locked"]
    /\ local' = [local EXCEPT ![t] = [op |-> "get_performance_metrics", input |-> <<>>]]
    /\ UNCHANGED <<sequence_number, error_count, total_packets, serialization_times,
                   deserialization_times, compression_ratios, packet_sizes,
                   facade_lock, events, sent, last>>
    /\ UNCHANGED MTFrame

\* get_stats, lines 348-355: the statistics are computed and the lock released
MetricsStats(t) ==
    /\ pc[t] = "metrics_locked"
    /\ stats_lock' = NoThread
    /\ pc' = [pc EXCEPT ![t] = "metrics_return"]
    /\ local' = [local EXCEPT ![t] =
                    [op |-> "get_performance_metrics", input |-> <<>>,
                     base_stats |-> get_stats]]
    /\ UNCHANGED <<sequence_number, error_count, total_packets, serialization_times,
                   deserialization_times, compression_ratios, packet_sizes,
                   facade_lock, events, sent, last, calls>>
    /\ UNCHANGED MTFrame

\* get_performance_metrics, lines 605-624: the fields of the facade are read
\* without a lock and the metrics returned
MetricsReturn(t) ==
    /\ pc[t] = "metrics_return"
    /\ last' = [op |-> "get_performance_metrics", input |-> <<>>,
                result |-> Ok(get_performance_metrics(local[t].base_stats))]
    /\ pc' = [pc EXCEPT ![t] = "idle"]
    /\ local' = [local EXCEPT ![t] = NoCall]
    /\ UNCHANGED <<sequence_number, error_count, total_packets, serialization_times,
                   deserialization_times, compression_ratios, packet_sizes,
                   facade_lock, stats_lock, events, sent, calls>>
    /\ UNCHANGED MTFrame

MTNext ==
    \E t \in Threads :
        \/ \E call \in {PlainCall, MissingSignalCall} : CreateBegin(t, call)
        \/ CreateLoad(t)
        \/ CreateStore(t)
        \/ RecordErrorAcquire(t)
        \/ RecordErrorRelease(t)
        \/ \E i \in 1..Len(events), format \in {"None"} : SerializeAcquire(t, i, format)
        \/ SerializeBody(t)
        \/ SerializeStats(t)
        \/ \E elapsed \in 0..MaxElapsed : SerializeRecord(t, elapsed)
        \/ \E data \in {PeerJsonPacket, ShortPacket, BadMagicPacket} : DeserializeDetect(t, data)
        \/ DeserializeAcquire(t)
        \/ \E elapsed \in 0..MaxElapsed : DeserializeBody(t, elapsed)
        \/ BatchCall(t)
        \/ MetricsAcquire(t)
        \/ MetricsStats(t)
        \/ MetricsReturn(t)

MTSpec == Init /\ [][MTNext]_vars

-----------------------------------------------------------------------------
(* Properties.  A step of Spec that makes a call is one with calls' =       *)
(* calls + 1; last' is then the call: its operation, its input and its     *)
(* result.  The floats of the model are multiples of 1/10000, so two of    *)
(* them are within 1e-5 of each other exactly when they are equal.         *)

IsCall(op) == calls' = calls + 1 /\ last'.op = op

\* the bytes behind the header of a framed packet
Payload(data) == Slice(data, HEADER_SIZE + 1, Len(data))

\* C1: every serialize_event of a created Event succeeds in every format, and
\* deserialize_event of the bytes it returned succeeds and returns an Event
\* equal to the serialized one in every field (floats are multiples of
\* 1/One, so two floats within 1e-5 of each other are equal).
C1_RoundTrip ==
    [][/\ IsCall("serialize_event") => last'.result.ok
       /\ (/\ last.op = "serialize_event"
           /\ last.result.ok
           /\ IsCall("deserialize_event")
           /\ last'.input = last.result.val)
          => (last'.result.ok /\ last'.result.val = last.input.event)]_vars

\* C2: _detect_format of the bytes serialize_event returned for format F is F,
\* for each of the four formats.
C2_DetectFormat ==
    (last.op = "serialize_event" /\ last.result.ok)
        => detect_format(last.result.val) = Ok(last.input.format_type)

\* C3: deserialize_event of a framed packet whose payload CRC-32 differs from
\* the checksum of its header fails with the checksum-mismatch error, returns
\* no Event and adds exactly one to the error counter.
C3_ChecksumMismatch ==
    [][(/\ IsCall("deserialize_event")
        /\ IsFramed(last'.input)
        /\ Len(last'.input) >= HEADER_SIZE
        /\ crc32(Payload(last'.input)) # SubSeq(last'.input, 13, 16))
       => (/\ last'.result = Raise("ValueError: Packet checksum mismatch")
           /\ error_count' = error_count + 1)]_vars

\* a bit of the payload of the framed packet serialize_event returned was
\* flipped, and deserialize_event refused the packet for its checksum
C3_Witness ==
    /\ last.op = "deserialize_event"
    /\ IsFramed(sent)
    /\ last.input \in {FlipBit(sent, n) : n \in 0..(MaxFlipBits - 1)}
    /\ last.result = Raise("ValueError: Packet checksum mismatch")
    /\ error_count = 1

\* C4: a deserialize_event that fails hands the caller an error, leaves the
\* lock of the facade free and changes nothing but the error counter, which
\* grows by one; a deserialize_event that follows it and succeeds returns the
\* Event a facade that never saw the bad packet returns.
C4_ErrorIsolation ==
    [][/\ (IsCall("deserialize_event") /\ ~last'.result.ok)
          => (/\ last'.result.err # ""
              /\ facade_lock' = NoThread
              /\ error_count' = error_count + 1
              /\ UNCHANGED <<session_id, default_format, compression_threshold,
                             sequence_number, total_packets, serialization_times,
                             deserialization_times, compression_ratios,
                             packet_sizes>>)
       /\ (/\ last.op = "deserialize_event"
           /\ ~last.result.ok
           /\ IsCall("deserialize_event")
           /\ last'.result.ok)
          => last'.result = deserialize_event(last'.input, InitialSessionId)]_vars

\* deserialize_event has failed on corrupt bytes after a packet was serialized
C4_Witness ==
    /\ last.op = "deserialize_event"
    /\ ~last.result.ok
    /\ error_count = 1
    /\ total_packets = 1
    /\ facade_lock = NoThread

C6_OneSamplePerCall ==
    [][(IsCall("serialize_event") \/ IsCall("deserialize_event"))
       => total_packets' = total_packets + 1]_vars

\* C7: when the calls the threads made have all returned, sequence_number is
\* the number of Events create_event returned and no two of them carry the
\* same sequence value.
C7_NoLostUpdate ==
    (\A t \in Threads : pc[t] = "idle")
        => /\ sequence_number = PyInt(Len(events))
           /\ \A i, j \in 1..Len(events) :
                  i # j => events[i].session_context # events[j].session_context

\* C8: any two Events create_event returned in the process have different
\* ids, whichever facade created them.
C8_UniqueIds ==
    \A i, j \in 1..Len(events) : i # j => events[i].event_id # events[j].event_id

\* C9: create_event returns an Event for every input and records no error.
C9_NeverRaises ==
    [][IsCall("create_event")
       => (last'.result.ok /\ error_count' = error_count)]_vars

\* C10: serialize_event in the COMPRESSED format returns a framed packet; the
\* Compressed flag is clear when the msgpack payload is at most the threshold
\* and set when it is longer and compression did not lengthen it; and
\* deserialize_event of the packet returns the Event.
C10_CompressionThreshold ==
    (/\ last.op = "serialize_event"
     /\ last.result.ok
     /\ last.input.format_type = "compressed")
    => \E raw \in {serialize_msgpack(last.input.event).val} :
           /\ IsFramed(last.result.val)
           /\ Len(last.result.val) >= HEADER_SIZE
           /\ Len(raw) <= compression_threshold => last.result.val[8] % 2 = 0
           /\ (Len(raw) > compression_threshold
               /\ Len(Payload(last.result.val)) <= Len(raw))
              => last.result.val[8] % 2 = 1
           /\ deserialize_event(last.result.val, session_id) = Ok(last.input.event)

\* the data_length the header of a framed packet declares
DeclaredLength(data) == FromU32(SubSeq(data, 9, 12))

\* the input of a deserialize_event call is a whole header behind the magic
FramedCall(data) ==
    /\ IsFramed(data)
    /\ Len(data) >= HEADER_SIZE
    /\ data[9] < 128

\* C11: for the bytes of a framed packet handed to deserialize_event,
\* _detect_format answers COMPRESSED when bit 0 of the flags byte is set and
\* BINARY when it is clear.
C11_FlagsDispatch ==
    (last.op = "deserialize_event" /\ FramedCall(last.input))
        => detect_format(last.input)
             = Ok(IF last.input[8] % 2 = 1 THEN "compressed" ELSE "binary")

\* C12: deserialize_event of a packet whose compact map has a signal type no
\* SignalType has returns an Event with the default signal type ALPHA_PEAK
\* and adds exactly one to the error counter.
C12_EnumFallback ==
    [][(IsCall("deserialize_event") /\ last'.input = PeerUnknownEnumPacket)
       => (/\ last'.result.ok
           /\ Ok(last'.result.val.signal_type)
                = EnumByName(SignalTypeMembers, Utf8["ALPHA_PEAK"])
           /\ error_count' = error_count + 1)]_vars

\* C13: deserialize_event of a framed packet followed by further bytes
\* returns what it returns for the packet alone, the header and the
\* data_length bytes behind it.
C13_ReadsDataLength ==
    [][(/\ IsCall("deserialize_event")
        /\ FramedCall(last'.input)
        /\ Len(last'.input) > HEADER_SIZE + DeclaredLength(last'.input))
       => last'.result
            = deserialize_event(SubSeq(last'.input, 1,
                                       HEADER_SIZE + DeclaredLength(last'.input)),
                                session_id)]_vars

\* C14: deserialize_event of a framed packet with fewer payload bytes than
\* its data_length declares fails with an error that is not the
\* checksum-mismatch error.
C14_TruncatedPacket ==
    [][(/\ IsCall("deserialize_event")
        /\ FramedCall(last'.input)
        /\ Len(last'.input) < HEADER_SIZE + DeclaredLength(last'.input))
       => (/\ ~last'.result.ok
           /\ last'.result.err
                \notin {"ValueError: Packet checksum mismatch",
                        "ValueError: Compressed packet checksum mismatch"})]_vars

\* C15: deserialize_event of a framed packet whose header declares a version
\* above FBIP_VERSION fails and returns no Event.
C15_UnsupportedVersion ==
    [][(/\ IsCall("deserialize_event")
        /\ FramedCall(last'.input)
        /\ FromU16(SubSeq(last'.input, 5, 6)) > FBIP_VERSION)
       => ~last'.result.ok]_vars

\* C16: deserialize_event of the packet batch_events returned returns the
\* Events of the batch, as many as were batched and in their order.
C16_BatchDecode ==
    [][(/\ last.op = "batch_events"
        /\ last.result.ok
        /\ IsCall("deserialize_event")
        /\ last'.input = last.result.val)
       => last'.result = Ok(last.input)]_vars

\* C17: batch_events returns one framed packet of type BATCH_EVENTS whose
\* data_length is the length of its payload and whose checksum is the CRC-32
\* of that payload; the payload is the msgpack map whose count is the number
\* of Events and whose events are their compact maps in the order given; and
\* the bytes are those a facade with the other default format returns.
C17_BatchFraming ==
    [][IsCall("batch_events")
       => /\ last'.result.ok
          /\ \E p \in {last'.result.val} :
                 /\ FramedCall(p)
                 /\ p[7] = BATCH_EVENTS
                 /\ DeclaredLength(p) = Len(p) - HEADER_SIZE
                 /\ SubSeq(p, 13, 16) = crc32(Payload(p))
                 /\ Payload(p)
                      = packb(PyDict(<<
                          <<K("type"), K("batch")>>,
                          <<K("count"), PyInt(Len(last'.input))>>,
                          <<K("events"),
                            PyList([k \in 1..Len(last'.input) |->
                                       to_compact_dict(last'.input[k])])>>,
                          <<K("timestamp"), PyFloat(clock * 10)>>,
                          <<K("session_id"), session_id>>>>))
                 /\ \A format \in {"binary", "json"} \ {default_format} :
                        batch_events(last'.input, format, session_id, clock) = Ok(p)]_vars

\* two different Events were batched by a facade whose default is not BINARY
C17_Witness ==
    /\ last.op = "batch_events"
    /\ default_format = "json"
    /\ Len(last.input) = 2
    /\ last.input[1] # last.input[2]
    /\ last.result.ok
    /\ last.result.val[7] = BATCH_EVENTS

\* the list batched last is one Event one or more times
BatchedCopies ==
    /\ last.op = "batch_events"
    /\ last.result.ok
    /\ Len(last.input) >= 1
    /\ \A k \in 1..Len(last.input) : last.input[k] = last.input[1]

C19_QuantumScenario ==
    [][/\ (IsCall("serialize_event") /\ last'.input.event.quantum_state # PyNone)
          => (/\ last'.result.ok
              /\ last'.input.format_type = "binary"
                 => (FramedCall(last'.result.val)
                     /\ last'.result.val[7] = SINGLE_EVENT))
       /\ (/\ last.op = "serialize_event"
           /\ last.result.ok
           /\ last.input.event.quantum_state # PyNone
           /\ last.input.format_type = "binary"
           /\ IsCall("deserialize_event")
           /\ last'.input = last.result.val)
          => (/\ last'.result.ok
              /\ \A f \in {"intensity", "duration_ms", "frequency_hz",
                           "target_nodes", "priority"} :
                     last'.result.val[f] = last.input.event[f])]_vars

\* C20: a framed packet serialize_event or batch_events returns is the
\* header and the payload, with version FBIP_VERSION, the data_length of the
\* payload and the CRC-32 of the payload alone; serialize_event frames every
\* BINARY packet; and neither decoder refuses the packet for its checksum.
C20_PayloadChecksum ==
    (last.op \in {"serialize_event", "batch_events"} /\ last.result.ok)
        => \E p \in {last.result.val} :
               /\ (last.op = "serialize_event" /\ last.input.format_type = "binary")
                  => IsFramed(p)
               /\ IsFramed(p)
                  => /\ FramedCall(p)
                     /\ SubSeq(p, 5, 6) = U16(FBIP_VERSION)
                     /\ DeclaredLength(p) = Len(p) - HEADER_SIZE
                     /\ SubSeq(p, 13, 16) = crc32(Payload(p))
                     /\ deserialize_binary(p, session_id)
                          # Raise("ValueError: Packet checksum mismatch")
                     /\ deserialize_compressed(p, session_id)
                          # Raise("ValueError: Compressed packet checksum mismatch")

\* serialize_event has returned a framed packet with a compressed payload
C20_Witness ==
    /\ last.op = "serialize_event"
    /\ last.input.format_type = "compressed"
    /\ last.result.ok
    /\ IsFramed(last.result.val)
    /\ last.result.val[8] = FLAG_COMPRESSED
    /\ decompress(Payload(last.result.val)).ok

\* C21: sequence_number always stays within [0, 2^32), that is, it is never
\* negative and its value takes no more than four bytes: the create_event
\* that finds it at 2^32 - 1 stores 0.
C21_SequenceWraps ==
    /\ IsInstance(sequence_number, "int") => sequence_number.int >= 0
    /\ IsInstance(sequence_number, "long") => Len(sequence_number.long) <= 4
    /\ [][(IsCall("create_event") /\ last'.result.ok
            /\ sequence_number = PyLong(<<255, 255, 255, 255>>))
           => sequence_number' = PyInt(0)]_vars

\* C22: serialize_event and batch_events never return more than
\* MAX_PACKET_SIZE bytes: a call whose bytes would be more raises instead.
C22_MaxPacketSize ==
    (last.op \in {"serialize_event", "batch_events"} /\ last.result.ok)
        => Len(last.result.val) <= MAX_PACKET_SIZE

\* history buffer q has become r: nothing was added, or one entry was added
\* at the end and, if q was full, its oldest entry dropped
Recorded(q, r) ==
    \/ r = q
    \/ /\ Len(q) < HISTORY_MAXLEN
       /\ Len(r) = Len(q) + 1
       /\ SubSeq(r, 1, Len(q)) = q
    \/ /\ Len(q) = HISTORY_MAXLEN
       /\ Len(r) = HISTORY_MAXLEN
       /\ SubSeq(r, 1, HISTORY_MAXLEN - 1) = Tail(q)

\* C23: each of the four history buffers holds at most 1000 entries, and a
\* call that adds to a buffer adds at the end and drops the oldest entry of a
\* full one, so that a buffer holds the latest 1000 entries in arrival order.
C23_HistoryBound ==
    /\ Len(serialization_times) <= HISTORY_MAXLEN
    /\ Len(deserialization_times) <= HISTORY_MAXLEN
    /\ Len(compression_ratios) <= HISTORY_MAXLEN
    /\ Len(packet_sizes) <= HISTORY_MAXLEN
    /\ [][/\ Recorded(serialization_times, serialization_times')
          /\ Recorded(deserialization_times, deserialization_times')
          /\ Recorded(compression_ratios, compression_ratios')
          /\ Recorded(packet_sizes, packet_sizes')
          /\ (IsCall("serialize_event") /\ last'.result.ok)
                => /\ Len(packet_sizes') = Min(Len(packet_sizes) + 1, HISTORY_MAXLEN)
                   /\ packet_sizes'[Len(packet_sizes')] = Len(last'.result.val)
                   /\ Len(serialization_times') =
                          Min(Len(serialization_times) + 1, HISTORY_MAXLEN)
          /\ (IsCall("deserialize_event") /\ last'.result.ok)
                => Len(deserialization_times') =
                       Min(Len(deserialization_times) + 1, HISTORY_MAXLEN)]_vars

\* the second serialize_event of a facade whose buffers held 999 entries has
\* dropped the oldest packet size and added the latest
C23_Witness ==
    /\ last.op = "serialize_event"
    /\ last.result.ok
    /\ total_packets = HISTORY_MAXLEN + 1
    /\ Len(packet_sizes) = HISTORY_MAXLEN
    /\ Len(serialization_times) = HISTORY_MAXLEN
    /\ Len(compression_ratios) = HISTORY_MAXLEN
    /\ packet_sizes[1] = 202
    /\ packet_sizes[HISTORY_MAXLEN] = Len(sent)

\* C24: a create_event whose input maps carry numbers, in range or out of
\* it, returns an Event (it does not raise) whose intensity and
\* entanglement_strength are the input's moved to the nearest bound of
\* [0, 1] and whose duration_ms is the input's or 1, whichever is more.
C24_Normalised ==
    last.op = "create_event"
        => /\ last.result.ok
           /\ Num(last.result.val.intensity)
                  = Max(0, Min(One, Num(Item(last.input[1], K("intensity")))))
           /\ Num(last.result.val.entanglement_strength)
                  = Max(0, Min(One, Num(Item(last.input[1], K("entanglement_strength")))))
           /\ Num(last.result.val.duration_ms)
                  = Max(One, Num(Item(last.input[1], K("duration_ms"))))
           /\ \A i \in 1..Len(events) :
                  /\ Num(events[i].intensity) \in 0..One
                  /\ Num(events[i].entanglement_strength) \in 0..One
                  /\ Num(events[i].duration_ms) >= One

\* create_event was given an intensity below 0, an entanglement_strength
\* above 1 and a negative duration_ms, and returned an Event with 0.0, 1.0
\* and 1, after one that it was given 1.5 and -1.0 and returned with 1.0
\* and 0.0
C24_Witness ==
    /\ last.op = "create_event"
    /\ Num(Item(last.input[1], K("intensity"))) < 0
    /\ Num(Item(last.input[1], K("entanglement_strength"))) > One
    /\ Num(Item(last.input[1], K("duration_ms"))) < 0
    /\ last.result.ok
    /\ last.result.val.intensity = PyFloat(0)
    /\ last.result.val.entanglement_strength = PyFloat(One)
    /\ last.result.val.duration_ms = PyInt(1)
    /\ Len(events) = 2
    /\ events[1].intensity = PyFloat(One)
    /\ events[1].entanglement_strength = PyFloat(0)

\* C25: every Event create_event returns has a consciousness_level within
\* [0, 1], an energy_cost of at least 0 and an energy_budget of at least 0,
\* whatever numbers the input maps carry.
C25_DerivedMetrics ==
    (last.op = "create_event" /\ last.result.ok)
        => /\ Num(last.result.val.consciousness_metrics.consciousness_level) \in 0..One
           /\ Num(last.result.val.consciousness_metrics.energy_cost) >= 0
           /\ Num(last.result.val.energy_budget) >= 0

\* C26: the quantum_state of every Event, created by create_event or
\* returned by deserialize_event, has as many amplitudes as phases: bytes
\* whose "qs" carries arrays of different lengths make deserialize_event
\* raise.
C26_QuantumArrays ==
    /\ \A i \in 1..Len(events) :
           ~IsInstance(events[i].quantum_state, "none")
               => Len(events[i].quantum_state.amplitudes.ndarray)
                     = Len(events[i].quantum_state.phases.ndarray)
    /\ (/\ last.op = "deserialize_event"
        /\ last.result.ok
        /\ ~IsInstance(last.result.val.quantum_state, "none"))
           => Len(last.result.val.quantum_state.amplitudes.ndarray)
                 = Len(last.result.val.quantum_state.phases.ndarray)

\* the string name, upper-cased, names no member of the enum
UnknownName(members, name) == ~EnumByName(members, Upper(name.str)).ok

\* C27: a create_event whose signal, action_type or target_network is a
\* string that names no member of its enum returns an Event with ALPHA_PEAK,
\* HIGHLIGHT_CLUSTER or EXECUTIVE in its place: the call does not raise,
\* error_count stays as it is and sequence_number grows by one.
C27_UnknownNames ==
    [][(/\ IsCall("create_event")
        /\ \/ UnknownName(SignalTypeMembers, Item(last'.input[1], K("signal")))
           \/ UnknownName(ActionTypeMembers, Item(last'.input[2], K("action_type")))
           \/ UnknownName(ConsciousnessNetworkMembers,
                          Item(last'.input[2], K("target_network"))))
       => /\ last'.result.ok
          /\ UnknownName(SignalTypeMembers, Item(last'.input[1], K("signal")))
                => last'.result.val.signal_type
                      = EnumByName(SignalTypeMembers, Utf8["ALPHA_PEAK"]).val
          /\ UnknownName(ActionTypeMembers, Item(last'.input[2], K("action_type")))
                => last'.result.val.action_type
                      = EnumByName(ActionTypeMembers, Utf8["HIGHLIGHT_CLUSTER"]).val
          /\ UnknownName(ConsciousnessNetworkMembers,
                         Item(last'.input[2], K("target_network")))
                => last'.result.val.target_network
                      = EnumByName(ConsciousnessNetworkMembers, Utf8["EXECUTIVE"]).val
          /\ events' = Append(events, last'.result.val)
          /\ error_count' = error_count
          /\ sequence_number' = PyInt(sequence_number.int + 1)]_vars

\* create_event was given "warp" for the three names after it was given
\* "memory", which names a network only: both calls returned, the first with
\* the MEMORY network, the second with the three defaults
C27_Witness ==
    /\ last.op = "create_event"
    /\ Item(last.input[1], K("signal")) = K("warp")
    /\ Item(last.input[2], K("action_type")) = K("warp")
    /\ Item(last.input[2], K("target_network")) = K("warp")
    /\ last.result.ok
    /\ last.result.val.signal_type = 0
    /\ last.result.val.action_type = 0
    /\ last.result.val.target_network = 0
    /\ Len(events) = 2
    /\ events[1].target_network = 1
    /\ events[1].signal_type = 0
    /\ error_count = 0
    /\ sequence_number = PyInt(2)

\* the keys of dictionary d, or none for None
KeysOf(d) == IF IsInstance(d, "none") THEN {} ELSE {d.dict[i][1] : i \in 1..Len(d.dict)}

\* the bytes w occur in the bytes b
Occurs(w, b) == \E i \in 1..(Len(b) - Len(w) + 1) : SubSeq(b, i, i + Len(w) - 1) = w

\* C28: the user_context of an Event create_event returned has no key but
\* user_id, session_id, priority and emotional_state, and is the caller's
\* context restricted to them; the "uc" of the compact map every encoder
\* writes has no key but user_id, session_id and priority; and the bytes
\* serialize_event and batch_events return carry none of the other keys and
\* values of the callers' contexts.
C28_ContextAllowList ==
    /\ \A i \in 1..Len(events) :
           /\ KeysOf(events[i].user_context)
                 \subseteq {K("user_id"), K("session_id"), K("priority"),
                            K("emotional_state")}
           /\ KeysOf(Get(to_compact_dict(events[i]), K("uc"), PyNone))
                 \subseteq {K("user_id"), K("session_id"), K("priority")}
    /\ (last.op = "create_event" /\ last.result.ok)
           => \A k \in KeysOf(last.result.val.user_context) :
                  /\ HasKey(last.input[3], k)
                  /\ Item(last.result.val.user_context, k) = Item(last.input[3], k)
    /\ (last.op \in {"serialize_event", "batch_events"} /\ last.result.ok)
           => \A w \in {"token", "secret", "emotional_state", "calm"} :
                  ~Occurs(Utf8[w], last.result.val)

\* serialize_event has returned the bytes of an Event whose caller gave the
\* context user_id, emotional_state and token: the Event kept the first two
\* and the bytes carry user_id and its value only
C28_Witness ==
    /\ last.op = "serialize_event"
    /\ last.result.ok
    /\ last.input.event.user_context = FilterKeys(PlainCall[3], {K("user_id"), K("emotional_state")})
    /\ KeysOf(PlainCall[3]) = {K("user_id"), K("emotional_state"), K("token")}
    /\ Item(to_compact_dict(last.input.event), K("uc")) = PyDict(<<<<K("user_id"), K("u1")>>>>)
    /\ Occurs(Utf8["user_id"], last.result.val)
    /\ Occurs(Utf8["u1"], last.result.val)
    /\ ~Occurs(Utf8["token"], last.result.val)

\* the compact map of Event ev has the twelve keys of every Event, each
\* optional key only if the field it stands for is set, no other key, no key
\* twice and no None for a value
WellFormedCompact(ev) ==
    LET compact == to_compact_dict(ev)
        keys == KeysOf(compact)
    IN  /\ {K("id"), K("ts"), K("v"), K("st"), K("i"), K("d"), K("at"), K("tn"),
            K("nodes"), K("params"), K("p"), K("eb")} \subseteq keys
        /\ Cardinality(keys) = Len(compact.dict)
        /\ Cardinality(keys \cap {K("f"), K("qs"), K("sc"), K("es"), K("cm"),
                                  K("sdc"), K("mp"), K("rc"), K("uc")})
              = Cardinality(keys) - 12
        /\ K("f") \in keys => ~IsInstance(ev.frequency_hz, "none")
        /\ K("qs") \in keys => ~IsInstance(ev.quantum_state, "none")
        /\ K("sc") \in keys => ev.superposition_count # PyInt(0)
        /\ K("es") \in keys => Num(ev.entanglement_strength) # 0
        /\ K("cm") \in keys => ~IsInstance(ev.consciousness_metrics, "none")
        /\ K("sdc") \in keys => ~IsInstance(ev.sdc_chip_targets, "none")
        /\ K("mp") \in keys => ~IsInstance(ev.memristor_pattern, "none")
        /\ K("rc") \in keys => ev.requires_confirmation = PyBool(TRUE)
        /\ K("uc") \in keys => ~IsInstance(ev.user_context, "none")
        /\ \A i \in 1..Len(compact.dict) : compact.dict[i][2] # PyNone

\* C29: the compact map of every Event, returned by create_event or by
\* deserialize_event, has the keys id, ts, v, st, i, d, at, tn, nodes, params,
\* p and eb, and each of f, qs, sc, es, cm, sdc, mp, rc and uc only when the
\* field is set: an unset field is left out, never written as None.
C29_CompactKeys ==
    /\ \A i \in 1..Len(events) : WellFormedCompact(events[i])
    /\ (last.op = "deserialize_event" /\ last.result.ok)
           => WellFormedCompact(last.result.val)

\* create_event has returned an Event without optional fields but the
\* metrics (twelve keys and cm) and one with all of them (twenty-one
\* keys), and deserialize_event one of a peer (twelve keys)
C29_Witness ==
    /\ Len(events) = 2
    /\ Len(to_compact_dict(events[1]).dict) = 13
    /\ Len(to_compact_dict(events[2]).dict) = 21
    /\ last.op = "deserialize_event"
    /\ last.result.ok
    /\ Len(to_compact_dict(last.result.val).dict) = 12

\* C30: a create_event call adds one to sequence_number and changes nothing
\* else of the facade: session_id, default_format, compression_threshold,
\* total_packets, error_count and the four history buffers are as before.
C30_CreateFrame ==
    [][IsCall("create_event")
       => /\ sequence_number' = PyInt(sequence_number.int + 1)
          /\ UNCHANGED <<session_id, default_format, compression_threshold,
                         total_packets, error_count, serialization_times,
                         deserialization_times, compression_ratios,
                         packet_sizes>>]_vars

\* C31: bytes that do not start with the FBIP magic, are no JSON object and
\* start with 0x78 0x9c or 0x78 0x01 are decoded as a zlib stream without
\* a frame: deserialize_event returns the Event of the MessagePack bytes
\* the stream inflates to, and fails if the stream does not inflate.
C31_UnframedCompressed ==
    (/\ last.op = "deserialize_event"
     /\ Len(last.input) >= 4
     /\ ~IsFramed(last.input)
     /\ SubSeq(last.input, 1, 2) \in {<<120, 156>>, <<120, 1>>})
        => IF decompress(last.input).ok
           THEN last.result = deserialize_msgpack(decompress(last.input).val, session_id)
           ELSE ~last.result.ok

\* C32: the bytes serialize_event returns for the JSON format are the JSON
\* object of protocol_version, "FBIP_v<major>.<minor>" of the version in
\* the Event's v field (the high and the low byte of the version the binary
\* header carries), of format, "text", and of event, the compact map.
C32_TextWrapper ==
    (last.op = "serialize_event" /\ last.input.format_type = "json" /\ last.result.ok)
        => last.result.val
              = dumps_compact(PyDict(
                    <<<<K("protocol_version"),
                        PyStrOf(Utf8["FBIP_v"]
                                  \o Digits(last.input.event.version.int \div 256)
                                  \o <<46>>
                                  \o Digits(last.input.event.version.int % 256))>>,
                      <<K("format"), K("text")>>,
                      <<K("event"), to_compact_dict(last.input.event)>>>>))

\* a call at one of these positions runs code that takes no lock: the steps
\* CreateStore, SerializeBody and DeserializeBody have no guard but the position
Computing(t) == pc[t] \in {"create_store", "serialize_body", "deserialize_body"}

\* the other steps that a call which has begun can take
Continue(t) ==
    \/ CreateLoad(t)
    \/ RecordErrorAcquire(t)
    \/ RecordErrorRelease(t)
    \/ SerializeStats(t)
    \/ \E elapsed \in 0..MaxElapsed : SerializeRecord(t, elapsed)
    \/ DeserializeAcquire(t)
    \/ MetricsStats(t)
    \/ MetricsReturn(t)

\* C33: concurrent calls on one facade never deadlock: while a call is in
\* progress some call in progress can take a step; the lock of the stats is
\* only taken by a thread that holds the lock of the facade already or takes
\* no lock of the facade before it releases; record_error runs with the lock
\* of the facade released; with no call in progress both locks are free
C33_DeadlockFree ==
    /\ (\E t \in Threads : pc[t] # "idle")
           => \E t \in Threads :
                  Computing(t) \/ (pc[t] # "idle" /\ ENABLED Continue(t))
    /\ \A t \in Threads :
           /\ facade_lock = t
                  <=> pc[t] \in {"serialize_body", "serialize_record",
                                 "serialize_record_locked", "deserialize_body"}
           /\ stats_lock = t
                  <=> pc[t] \in {"serialize_record_locked", "record_error_locked",
                                 "metrics_locked"}
           /\ pc[t] \in {"record_error", "record_error_locked"} => facade_lock # t
    /\ (\A t \in Threads : pc[t] = "idle")
           => facade_lock = NoThread /\ stats_lock = NoThread

\* a deserialize_event that failed inside the locked region has returned, no
\* call is in progress and both locks are free
C33_Witness ==
    /\ \A t \in Threads : pc[t] = "idle"
    /\ facade_lock = NoThread
    /\ stats_lock = NoThread
    /\ last.op = "deserialize_event"
    /\ detect_format(last.input).ok
    /\ ~last.result.ok
    /\ error_count >= 1

\* the Events of events that this facade created, in the order of creation
OwnEvents ==
    SelectSeq(events, LAMBDA ev :
        ev.session_context.dict[1] = <<K("session_id"), session_id>>)

\* C34: in sequential use sequence_number starts at 0 and never decreases; a
\* create_event that returns an Event adds exactly one to it and the Event
\* carries the value before the call, so that the k-th Event created carries
\* sequence k; a create_event that raises and every serialize_event,
\* deserialize_event, batch_events and get_performance_metrics leave it as it is
C34_SequenceCounts ==
    /\ sequence_number = PyInt(0)
    /\ [](\A k \in 1..Len(OwnEvents) :
             OwnEvents[k].session_context.dict[2] = <<K("sequence"), PyInt(k - 1)>>)
    /\ [][/\ sequence_number'.int >= sequence_number.int
          /\ IsCall("create_event")
             => IF last'.result.ok
                THEN /\ sequence_number' = PyInt(sequence_number.int + 1)
                     /\ last'.result.val.session_context =
                            PyDict(<<<<K("session_id"), session_id>>,
                                     <<K("sequence"), sequence_number>>>>)
                ELSE sequence_number' = sequence_number
          /\ (\/ IsCall("serialize_event")
              \/ IsCall("deserialize_event")
              \/ IsCall("batch_events")
              \/ IsCall("get_performance_metrics"))
             => sequence_number' = sequence_number]_vars

\* two Events were created, with sequence 0 and sequence 1, and the metrics
\* read afterwards report the sequence number 2
C34_Witness ==
    /\ Len(OwnEvents) = 2
    /\ last.op = "get_performance_metrics"
    /\ last.result.val.sequence_info.current_sequence = PyInt(2)
    /\ sequence_number = PyInt(2)

\* C35: the error_rate that get_stats returns lies within [0, 1] after any
\* sequence of create_event, serialize_event and deserialize_event calls that
\* return or raise
C35_ErrorRateBounded ==
    last.op = "get_performance_metrics"
        => /\ last.result.val.performance.error_rate.float >= 0
           /\ last.result.val.performance.error_rate.float <= One

\* the bytes serialize_event returned are a packet whose Compressed flag is set
FlagSet(data) == IsFramed(data) /\ Len(data) >= HEADER_SIZE /\ data[8] % 2 = 1

\* C36: serialize_event of a facade whose enable_compression is False returns,
\* in every format and for every payload size, bytes that carry neither the
\* Compressed flag nor the compressed payload; a payload is compressed only
\* when enable_compression is True and the msgpack payload is longer than
\* compression_threshold
C36_CompressionSwitch ==
    (last.op = "serialize_event" /\ last.result.ok)
    => \E raw \in {serialize_msgpack(last.input.event).val} :
           /\ ~enable_compression
                  => /\ ~FlagSet(last.result.val)
                     /\ ~Occurs(compress(raw), last.result.val)
           /\ (FlagSet(last.result.val) \/ Occurs(compress(raw), last.result.val))
                  => enable_compression /\ Len(raw) > compression_threshold

\* C37: batch_events leaves sequence_number, total_packets, error_count and
\* the four history buffers as they are, when it returns a packet and when it
\* raises
C37_BatchFrame ==
    [][IsCall("batch_events")
       => UNCHANGED <<sequence_number, total_packets, error_count,
                      serialization_times, deserialization_times,
                      compression_ratios, packet_sizes>>]_vars

\* a batch_events call given two Events has raised: no error is recorded and
\* the sequence number is the number of Events created
C37_Witness ==
    /\ last.op = "batch_events"
    /\ ~last.result.ok
    /\ Len(last.input) = 2
    /\ error_count = 0
    /\ sequence_number = PyInt(2)

\* the values of the members of Priority
PriorityValues == {PriorityMembers[i][2] : i \in 1..Len(PriorityMembers)}

\* C38: the priority of every Event create_event returns is 1, 5, 8 or 10: a
\* priority the caller gave that is one of these values is kept and every
\* other whole number becomes 5; a call that is well-formed but for its
\* priority returns an Event and records no error
C38_PriorityClosed ==
    [][IsCall("create_event")
       => \E priority_val \in {Get(last'.input[2], K("priority"), PyInt(5))} :
              /\ last'.input \in PriorityCalls
                     => last'.result.ok /\ error_count' = error_count
              /\ last'.result.ok
                     => /\ last'.result.val.priority \in PriorityValues
                        /\ IsInstance(priority_val, "int")
                               => last'.result.val.priority =
                                      IF priority_val.int \in PriorityValues
                                      THEN priority_val.int ELSE 5]_vars

\* Events were created from the priorities 7 and 8: the first carries 5 and
\* the second 8, and no error was recorded
C38_Witness ==
    /\ Len(events) = 2
    /\ events[1].priority = 5
    /\ events[2].priority = 8
    /\ last.op = "create_event"
    /\ last.input \in PriorityCalls
    /\ Get(last.input[2], K("priority"), PyInt(5)) = PyInt(8)
    /\ error_count = 0
    /\ sequence_number = PyInt(2)

====
